---- MODULE Spec2Model ----
(***************************************************************************)
(* Home.InfoPoint integration: the form login of HomeInfoPointClient       *)
(* (api.py), the entry setup that drives it (__init__.py) and the          *)
(* coordinator refresh (coordinator.py), for the configured accounts.      *)
(* Every await of the code is a point where the other account's task may   *)
(* run, so every request and every sleep is one action.                    *)
(***************************************************************************)
EXTENDS Integers, Sequences, FiniteSets, TLC

\* The configured accounts; one config entry, one client per account.
Accounts == {"A", "B"}

\* How many times the host starts async_setup_entry, over all entries.
MaxSetups == 2

NoAccount == "none"

--------------------------------------------------------------------------
(* api.py: constants and pure helpers *)

\* Delays in tenths of a second.
RETRY_DELAYS_PRIMARY == <<2, 6, 10>>
RETRY_DELAYS_FALLBACK == <<3, 8, 12, 20>>

LOGIN_PATH == "login.php"
AFTER_LOGIN_PATH == "getdata.php"
ROOT_PATH == "/"

\* A response body: the tags of the page that matter to the client, in
\* document order, and the account whose data the page shows.
FormLoginPhp == "<form action=login.php>"
InputPassword == "<input type=password>"
InputText == "<input type=text>"
TableTag == "<table>"

LoginPage == [markup |-> <<FormLoginPhp, InputText, InputPassword>>, account |-> NoAccount]
PasswordPage == [markup |-> <<InputText, InputPassword>>, account |-> NoAccount]
EmptyPage == [markup |-> <<>>, account |-> NoAccount]
DataPage(a) == [markup |-> <<TableTag, TableTag>>, account |-> a]
NoBody == [markup |-> <<>>, account |-> "unset"]

\* LOGIN_FORM_RE: a login.php form or a password input.
LOGIN_FORM_RE(tag) == tag = FormLoginPhp \/ tag = InputPassword

\* A detector that only knows the login.php form.
LooksLikeLoginForm_FormOnly(html) ==
    \E i \in 1..Len(html.markup) : html.markup[i] = FormLoginPhp

\* _looks_like_login_form: LOGIN_FORM_RE.search(html)
LooksLikeLoginForm(html) ==
    \E i \in 1..Len(html.markup) : LOGIN_FORM_RE(html.markup[i])

\* A status test that lets every answer pass.
StatusAccepted_Any(st) == st > 0

\* The status test of _login_once: resp.status not in (200, 302) raises.
StatusAccepted(st) == st \in {200, 302}

\* HomeInfoPointClient.__init__: the session is the host's shared session.
SharedSession == "hass_clientsession"
Sessions == {SharedSession}
AsyncGetClientsession(c) == SharedSession

\* The methods class HomeInfoPointClient defines.
ClientMethods == {"__init__", "async_login_and_fetch_html", "_login_once",
                  "_fetch_after_login_once", "_fetch_after_login_with_retries",
                  "_looks_like_login_form", "async_login"}
HasAttr(m) == m \in ClientMethods

--------------------------------------------------------------------------
(* The portal and the transport, as the client sees them *)

Redirects == {301, 302}
Statuses == {200, 301, 302, 500}
DataStatuses == {200, 302, 500}
\* aiohttp.ClientError and asyncio.TimeoutError (not a ClientError).
TransportErrors == {"ClientError", "TimeoutError"}

Request(m, p, nocache) == [method |-> m, path |-> p, nocache |-> nocache]

\* What a request ends with: a transport error, or a status and a body.
Failed(e) == [err |-> e, status |-> 0, body |-> NoBody]
Answer(st, b) == [err |-> "none", status |-> st, body |-> b]

\* Answers to GET / and POST login.php: only the status is read.
PlainResponses ==
    {Answer(st, EmptyPage) : st \in Statuses} \cup {Failed(e) : e \in TransportErrors}

\* Answers to GET getdata.php for a session cookie bound to `owner`: with 200
\* a login page, an empty page or, once the cookie is bound, the owner's data;
\* with another status an error page, with or without a login form.
DataResponses(owner) ==
    {Answer(200, b) : b \in {LoginPage, PasswordPage, EmptyPage}}
    \cup (IF owner = NoAccount THEN {} ELSE {Answer(200, DataPage(owner))})
    \cup {Answer(st, b) : st \in DataStatuses \ {200}, b \in {EmptyPage, LoginPage}}
    \cup {Failed(e) : e \in TransportErrors}

--------------------------------------------------------------------------
(* State *)

VARIABLES
    entry,         \* per account: where async_setup_entry stands / how it ended
    setups,        \* how often the host has started async_setup_entry
    username,      \* per client: _username_placeholder ("unset" before async_login)
    session,       \* per client: self._session
    pc,            \* per client: the await async_login_and_fetch_html is at
    force,         \* per client: force_refresh of the running login cycle
    attempt,       \* per client: attempt of _fetch_after_login_with_retries
    status,        \* per client: status of the last data response (0: none yet)
    html,          \* per client: body of the last data response
    outcome,       \* per client: how async_login_and_fetch_html ended
    reqLog,        \* per client: the requests of the running call, in order
    pauses,        \* per client: the delays slept in the running fetch sequence
    steps,         \* per client: the requests and pauses the running call has completed
    loginStatus,   \* per client: status of the answer to the last GET / or POST (0: none)
    answered,      \* per client: every request of the call got an answer
    accepted,      \* per client: every GET / and POST of the call had an accepted status
    allForms,      \* per client: every data response of the call was 200 with a login form
    primaryLast,   \* per client: the kind of the last data response of the first cycle
    authed,        \* per account: the portal had bound the cookie to it when the login returned
    jar,           \* per session: the account the portal has bound to the session cookie
    jarUsers,      \* per session: the clients whose requests used its cookie jar
    refreshes,     \* per account: the last two runs of _async_update_data
    \* the coordinator run against a client whose fetch may also succeed
    data,          \* coordinator.data as the consumers see it: <<>> or <<snapshot>>
    lastJson,      \* the content of last.json: <<>> or <<snapshot>>
    entryFolder,   \* coordinator._entry_folder is set
    fetched,       \* what the fetch of the last refresh cycle did
    updResult,     \* how the last _async_update_data ended
    parsedHtml,    \* the documents parse_html was given in the last cycle
    prevData,      \* data before the last cycle
    prevJson,      \* lastJson before the last cycle
    hostSeen,      \* per handler and exception: the outcome the host was shown
    \* parser.parse
    pdoc,          \* the document of the last parse call: <<>> or <<doc>>
    snapshot,      \* what the last parse call returned: <<>> or <<snapshot>>
    raised,        \* the exception the last parse call ended with, or "none"
    fallbackCalled,\* the last parse call evaluated _extract_student_fallback
    acc,           \* the accumulators the last parse call left behind
    memo,          \* <<>> or <<the first parse call and the kinds of call since>>
    \* the pure helpers of parser.py, sensor.py and api.py
    fnName,        \* the helper last called
    fnArg,         \* its argument
    fnRet,         \* its result
    \* the host's registry and the unload handler
    registry,      \* the entry ids that hass.data[DOMAIN] holds
    platformsUp,   \* per account: the sensor and calendar platforms are set up
    unloadResult,  \* per account: how the last async_unload_entry ended
    closeCalls,    \* per session: how often it was closed
    \* sensor.py: the platform setup and its update listener
    listening,     \* the sensor platform is set up, its listener registered
    created,       \* the set `created` of the platform setup
    sensors,       \* per subject key: the grade sensors handed to async_add_entities
    notified,      \* the listeners have run since coordinator.data was last set
    everSeen,      \* the subject keys of the snapshots the platform was shown
    reappeared,    \* a key with a sensor came back after a snapshot without it
    \* calendar.py: the homework calendar and its recompute tasks
    tasks,         \* the _async_recompute_event tasks that have not finished, oldest first
    calEvent,      \* self._event: <<>> or <<event>>
    \* config_flow.py: the flow in progress and the entries of the integration
    flow,          \* the HomeInfoPointConfigFlow instance and its last result
    configEntries, \* the config entries created so far
    flowsStarted,  \* how many flows the host has started
    errorsShown    \* the errors the user step has shown so far

sessionVars == <<entry, setups, username, session, pc, force, attempt, status,
                 html, outcome, reqLog, pauses, steps, loginStatus, answered,
                 accepted, allForms, primaryLast, authed, jar, jarUsers,
                 refreshes>>
coordVars == <<data, lastJson, entryFolder, fetched, updResult, parsedHtml,
               prevData, prevJson, hostSeen>>
parserVars == <<pdoc, snapshot, raised, fallbackCalled, acc, memo>>
fnVars == <<fnName, fnArg, fnRet>>

unloadVars == <<registry, platformsUp, unloadResult, closeCalls>>
platformVars == <<listening, created, sensors, notified, everSeen, reappeared>>
calVars == <<tasks, calEvent>>
flowVars == <<flow, configEntries, flowsStarted, errorsShown>>
hostVars == <<unloadVars, platformVars, calVars, flowVars>>

vars == <<sessionVars, coordVars, parserVars, fnVars, hostVars>>

\* The exceptions a handler of the integration can be given.
Exceptions == {"InvalidAuth", "CannotConnect", "AttributeError"}
Handlers == {"async_setup_entry", "_async_update_data"}

\* parse starts with an empty grades mapping and two empty lists.
EmptyAcc == [grades |-> <<>>, homework |-> <<>>, remarks |-> <<>>]

\* The document of an empty page.
EmptyDoc == [pupilinfo |-> <<>>, texts |-> <<>>, tables |-> <<>>]
NoFetch == [kind |-> "none", exc |-> "none", doc |-> EmptyDoc]

SessionInit ==
    /\ entry = [c \in Accounts |-> "not_loaded"]
    /\ setups = 0
    /\ username = [c \in Accounts |-> "unset"]
    /\ session = [c \in Accounts |-> "unset"]
    /\ pc = [c \in Accounts |-> "idle"]
    /\ force = [c \in Accounts |-> FALSE]
    /\ attempt = [c \in Accounts |-> 0]
    /\ status = [c \in Accounts |-> 0]
    /\ html = [c \in Accounts |-> NoBody]
    /\ outcome = [c \in Accounts |-> "none"]
    /\ reqLog = [c \in Accounts |-> <<>>]
    /\ pauses = [c \in Accounts |-> <<>>]
    /\ steps = [c \in Accounts |-> 0]
    /\ loginStatus = [c \in Accounts |-> 0]
    /\ answered = [c \in Accounts |-> TRUE]
    /\ accepted = [c \in Accounts |-> TRUE]
    /\ allForms = [c \in Accounts |-> TRUE]
    /\ primaryLast = [c \in Accounts |-> "none"]
    /\ authed = [c \in Accounts |-> FALSE]
    /\ jar = [s \in Sessions |-> NoAccount]
    /\ jarUsers = [s \in Sessions |-> {}]
    /\ refreshes = [c \in Accounts |-> <<>>]

\* HomeInfoPointCoordinator.__init__: no data yet, _entry_folder is None
CoordInit ==
    /\ data = <<>>
    /\ lastJson = <<>>
    /\ entryFolder = FALSE
    /\ fetched = NoFetch
    /\ updResult = "none"
    /\ parsedHtml = <<>>
    /\ prevData = <<>>
    /\ prevJson = <<>>
    /\ hostSeen = [h \in Handlers |-> [e \in Exceptions |-> "none"]]

\* no parse call yet
ParserIdle ==
    /\ snapshot = <<>>
    /\ raised = "none"
    /\ fallbackCalled = FALSE
    /\ acc = EmptyAcc
    /\ memo = <<>>

\* no helper call yet
FnIdle ==
    /\ fnName = "none"
    /\ fnRet = <<>>

\* nothing registered, no unload yet, every session open
UnloadInit ==
    /\ registry = {}
    /\ platformsUp = [c \in Accounts |-> FALSE]
    /\ unloadResult = [c \in Accounts |-> "none"]
    /\ closeCalls = [s \in Sessions |-> 0]

\* the sensor platform is not set up
PlatformInit ==
    /\ listening = FALSE
    /\ created = {}
    /\ sensors = <<>>
    /\ notified = TRUE
    /\ everSeen = {}
    /\ reappeared = FALSE

\* _HIPBaseCalendar.__init__: no event, no task
CalendarInit ==
    /\ tasks = <<>>
    /\ calEvent = <<>>

\* no flow started, no entry configured
FlowInit ==
    /\ flow = [cur_step |-> "none", result |-> "none", errors |-> "",
               detected |-> <<>>, staged |-> <<>>, success |-> FALSE,
               call |-> [step |-> "none", base_url |-> <<>>, username |-> <<>>,
                         outcome |-> "none", page |-> <<>>, before |-> {}],
               made |-> <<>>]
    /\ configEntries = {}
    /\ flowsStarted = 0
    /\ errorsShown = {}

HostInit == UnloadInit /\ PlatformInit /\ CalendarInit /\ FlowInit

Init ==
    /\ SessionInit
    /\ CoordInit
    /\ pdoc = <<>>
    /\ ParserIdle
    /\ fnArg = <<>>
    /\ FnIdle
    /\ HostInit

--------------------------------------------------------------------------
(* Helpers on the request log and the responses *)

RECURSIVE CountReq(_, _)
CountReq(log, p) ==
    IF log = <<>> THEN 0
    ELSE (IF log[1].path = p THEN 1 ELSE 0) + CountReq(Tail(log), p)

RootGets(c) == CountReq(reqLog[c], ROOT_PATH)
LoginPosts(c) == CountReq(reqLog[c], LOGIN_PATH)
DataGets(c) == CountReq(reqLog[c], AFTER_LOGIN_PATH)

\* The data requests of the running fetch sequence: those after the last POST.
RECURSIVE SeqGets(_)
SeqGets(log) ==
    IF log = <<>> \/ log[Len(log)].path # AFTER_LOGIN_PATH THEN 0
    ELSE 1 + SeqGets(SubSeq(log, 1, Len(log) - 1))

\* What a page shows, told from its tags alone.
ShowsLoginForm(h) ==
    \E i \in 1..Len(h.markup) : h.markup[i] \in {FormLoginPhp, InputPassword}

ResponseKind(st, h) ==
    IF st # 200 THEN "bad" ELSE IF ShowsLoginForm(h) THEN "form" ELSE "page"

\* The request is sent with the session's cookie jar and its response may
\* set cookies in it.
UseJar(c) == jarUsers' = [jarUsers EXCEPT ![session[c]] = @ \cup {c}]

Delays(f) == IF f THEN RETRY_DELAYS_FALLBACK ELSE RETRY_DELAYS_PRIMARY

\* The call ends: a return value or an exception reaches the caller.
EndCall(c, how) ==
    /\ pc' = [pc EXCEPT ![c] = "done"]
    /\ outcome' = [outcome EXCEPT ![c] = how]

\* The local state of a call before its first request.
FreshCall(c) ==
    /\ force' = [force EXCEPT ![c] = FALSE]
    /\ attempt' = [attempt EXCEPT ![c] = 0]
    /\ status' = [status EXCEPT ![c] = 0]
    /\ html' = [html EXCEPT ![c] = NoBody]
    /\ outcome' = [outcome EXCEPT ![c] = "none"]
    /\ reqLog' = [reqLog EXCEPT ![c] = <<>>]
    /\ pauses' = [pauses EXCEPT ![c] = <<>>]
    /\ steps' = [steps EXCEPT ![c] = 0]
    /\ loginStatus' = [loginStatus EXCEPT ![c] = 0]
    /\ answered' = [answered EXCEPT ![c] = TRUE]
    /\ accepted' = [accepted EXCEPT ![c] = TRUE]
    /\ allForms' = [allForms EXCEPT ![c] = TRUE]
    /\ primaryLast' = [primaryLast EXCEPT ![c] = "none"]

--------------------------------------------------------------------------
(* __init__.py: async_setup_entry up to the await of the login call *)

SetupPossible(c) ==
    entry[c] \in {"not_loaded", "ConfigEntryAuthFailed", "CannotConnect",
                  "ConfigEntryNotReady"}

\* The client is constructed, async_login stores the credentials and
\* async_login_and_fetch_html is entered.
AsyncSetupEntry(c) ==
    /\ SetupPossible(c)
    /\ setups < MaxSetups
    /\ setups' = setups + 1
    /\ entry' = [entry EXCEPT ![c] = "setup_in_progress"]
    /\ session' = [session EXCEPT ![c] = AsyncGetClientsession(c)]
    /\ username' = [username EXCEPT ![c] = c]
    /\ pc' = [pc EXCEPT ![c] = "login_get"]
    /\ authed' = [authed EXCEPT ![c] = FALSE]
    /\ FreshCall(c)
    /\ UNCHANGED <<jar, jarUsers, refreshes>>
    /\ UNCHANGED <<coordVars, parserVars, fnVars, hostVars>>

--------------------------------------------------------------------------
(* api.py: _login_once *)

\* The first try block catches AttributeError only: a bad status raises
\* CannotConnect, a transport error leaves the method as it is.
RootGetResult(r) ==
    IF r.err # "none" THEN r.err
    ELSE IF ~StatusAccepted(r.status) THEN "CannotConnect"
    ELSE "ok"

\* The second try block turns ClientError and every other exception into
\* CannotConnect.
PostResult(r) ==
    IF r.err # "none" THEN "CannotConnect"
    ELSE IF ~StatusAccepted(r.status) THEN "CannotConnect"
    ELSE "ok"

\* GET of the start page, with the no-cache headers when force_refresh.
LoginOnceGet(c) ==
    /\ pc[c] = "login_get"
    /\ steps' = [steps EXCEPT ![c] = @ + 1]
    /\ reqLog' = [reqLog EXCEPT ![c] = Append(@, Request("GET", ROOT_PATH, force[c]))]
    /\ UseJar(c)
    /\ \E r \in PlainResponses :
          /\ loginStatus' = [loginStatus EXCEPT ![c] = r.status]
          /\ answered' = [answered EXCEPT ![c] = @ /\ r.err = "none"]
          /\ accepted' = [accepted EXCEPT ![c] = @ /\ r.status \in {200, 302}]
          /\ IF RootGetResult(r) = "ok"
             THEN /\ pc' = [pc EXCEPT ![c] = "login_post"]
                  /\ UNCHANGED outcome
             ELSE EndCall(c, RootGetResult(r))
    /\ UNCHANGED <<entry, setups, username, session, force, attempt, status,
                   html, pauses, allForms, primaryLast, authed, jar, refreshes>>
    /\ UNCHANGED <<coordVars, parserVars, fnVars, hostVars>>

\* POST of the login form; the portal binds the session cookie to the
\* posted account when it accepts the credentials.
LoginOncePost(c) ==
    /\ pc[c] = "login_post"
    /\ IF username[c] = "unset"
       THEN \* AttributeError on the placeholder, caught as Exception
            /\ EndCall(c, "CannotConnect")
            /\ UNCHANGED <<reqLog, jar, jarUsers, attempt, pauses, steps,
                           loginStatus, answered, accepted>>
       ELSE /\ steps' = [steps EXCEPT ![c] = @ + 1]
            /\ reqLog' = [reqLog EXCEPT ![c] = Append(@, Request("POST", LOGIN_PATH, FALSE))]
            /\ UseJar(c)
            /\ \E r \in PlainResponses, credsOk \in BOOLEAN :
                  /\ loginStatus' = [loginStatus EXCEPT ![c] = r.status]
                  /\ answered' = [answered EXCEPT ![c] = @ /\ r.err = "none"]
                  /\ accepted' = [accepted EXCEPT ![c] = @ /\ r.status \in {200, 302}]
                  /\ IF PostResult(r) = "ok"
                     THEN /\ pc' = [pc EXCEPT ![c] = "fetch_first"]
                          /\ attempt' = [attempt EXCEPT ![c] = 0]
                          /\ pauses' = [pauses EXCEPT ![c] = <<>>]
                          /\ jar' = [jar EXCEPT ![session[c]] =
                                        IF credsOk THEN username[c] ELSE @]
                          /\ UNCHANGED outcome
                     ELSE /\ EndCall(c, PostResult(r))
                          /\ UNCHANGED <<jar, attempt, pauses>>
    /\ UNCHANGED <<entry, setups, username, session, force, status, html,
                   allForms, primaryLast, authed, refreshes>>
    /\ UNCHANGED <<coordVars, parserVars, fnVars, hostVars>>

--------------------------------------------------------------------------
(* api.py: _fetch_after_login_with_retries and the caller's decision *)

\* A loop condition that forgets the status.
WhileCond_NoStatus(st, h, att, delays) ==
    LooksLikeLoginForm(h) /\ att < Len(delays)

\* The loop condition, read with the attempt counter as it stands there.
WhileCond(st, h, att, delays) ==
    st = 200 /\ LooksLikeLoginForm(h) /\ att < Len(delays)

\* After the loop: a status other than 200 raises CannotConnect.
SequenceResult(st) == IF st # 200 THEN "CannotConnect" ELSE "html"

\* The final check reports the login form as a connectivity failure.
AfterSequence_AuthAsConnect(f, h) ==
    IF ~f
    THEN IF ~LooksLikeLoginForm(h) THEN "return" ELSE "fallback"
    ELSE IF LooksLikeLoginForm(h) THEN "CannotConnect" ELSE "return"

\* The first check is lost: the fallback cycle always runs.
AfterSequence_AlwaysFallback(f, h) ==
    IF ~f
    THEN "fallback"
    ELSE IF LooksLikeLoginForm(h) THEN "InvalidAuth" ELSE "return"

\* The fallback cycle is entered again while the login form shows.
AfterSequence_RepeatFallback(f, h) ==
    IF LooksLikeLoginForm(h) THEN "fallback" ELSE "return"

\* async_login_and_fetch_html on the body a fetch sequence returned.
AfterSequence(f, h) ==
    IF ~f
    THEN IF ~LooksLikeLoginForm(h) THEN "return" ELSE "fallback"
    ELSE IF LooksLikeLoginForm(h) THEN "InvalidAuth" ELSE "return"

\* One GET of getdata.php (_fetch_after_login_once has no try block), then the
\* code up to the next await: the loop test and, when the loop ends, the rest
\* of the sequence and of async_login_and_fetch_html.
FetchAfterLoginOnce(c) ==
    /\ pc[c] \in {"fetch_first", "fetch_retry"}
    /\ steps' = [steps EXCEPT ![c] = @ + 1]
    /\ reqLog' = [reqLog EXCEPT ![c] = Append(@, Request("GET", AFTER_LOGIN_PATH, TRUE))]
    /\ UseJar(c)
    /\ loginStatus' = [loginStatus EXCEPT ![c] = 0]
    /\ \E r \in DataResponses(jar[session[c]]) :
          /\ answered' = [answered EXCEPT ![c] = @ /\ r.err = "none"]
          /\ IF r.err # "none"
             THEN /\ EndCall(c, r.err)
                  /\ UNCHANGED <<status, html, attempt, force, allForms, primaryLast>>
             ELSE LET att == IF pc[c] = "fetch_retry" THEN attempt[c] + 1 ELSE attempt[c]
                      res == IF SequenceResult(r.status) = "html"
                             THEN AfterSequence(force[c], r.body)
                             ELSE SequenceResult(r.status)
                  IN  /\ status' = [status EXCEPT ![c] = r.status]
                      /\ html' = [html EXCEPT ![c] = r.body]
                      /\ attempt' = [attempt EXCEPT ![c] = att]
                      /\ allForms' = [allForms EXCEPT ![c] =
                                         @ /\ ResponseKind(r.status, r.body) = "form"]
                      /\ primaryLast' = [primaryLast EXCEPT ![c] =
                            IF RootGets(c) = 1 THEN ResponseKind(r.status, r.body) ELSE @]
                      /\ IF WhileCond(r.status, r.body, att, Delays(force[c]))
                         THEN /\ pc' = [pc EXCEPT ![c] = "sleep"]
                              /\ UNCHANGED <<outcome, force>>
                         ELSE IF res = "fallback"
                              THEN /\ pc' = [pc EXCEPT ![c] = "login_get"]
                                   /\ force' = [force EXCEPT ![c] = TRUE]
                                   /\ UNCHANGED outcome
                              ELSE /\ EndCall(c, res)
                                   /\ UNCHANGED force
    /\ UNCHANGED <<entry, setups, username, session, pauses, accepted, authed,
                   jar, refreshes>>
    /\ UNCHANGED <<coordVars, parserVars, fnVars, hostVars>>

\* asyncio.sleep(delays[attempt]) between two data requests.
Sleep(c) ==
    /\ pc[c] = "sleep"
    /\ steps' = [steps EXCEPT ![c] = @ + 1]
    /\ pauses' = [pauses EXCEPT ![c] = Append(@, Delays(force[c])[attempt[c] + 1])]
    /\ pc' = [pc EXCEPT ![c] = "fetch_retry"]
    /\ UNCHANGED <<entry, setups, username, session, force, attempt, status,
                   html, outcome, reqLog, loginStatus, answered, accepted,
                   allForms, primaryLast, authed, jar, jarUsers, refreshes>>
    /\ UNCHANGED <<coordVars, parserVars, fnVars, hostVars>>

--------------------------------------------------------------------------
(* __init__.py: async_setup_entry after the login call *)

\* InvalidAuth becomes ConfigEntryAuthFailed, everything else CannotConnect;
\* a returned page is written to last.html and the coordinator is built.
SetupResult(how) ==
    IF how = "return" THEN "first_refresh"
    ELSE IF how = "InvalidAuth" THEN "ConfigEntryAuthFailed"
    ELSE "CannotConnect"

SetupAfterLogin(c) ==
    /\ entry[c] = "setup_in_progress"
    /\ pc[c] = "done"
    /\ entry' = [entry EXCEPT ![c] = SetupResult(outcome[c])]
    /\ authed' = [authed EXCEPT ![c] =
                     outcome[c] = "return" /\ jar[session[c]] = c]
    /\ pc' = [pc EXCEPT ![c] = "idle"]
    /\ FreshCall(c)
    /\ UNCHANGED <<setups, username, session, jar, jarUsers, refreshes>>
    /\ UNCHANGED <<coordVars, parserVars, fnVars, hostVars>>

--------------------------------------------------------------------------
(* coordinator.py: _async_update_data *)

Last2(q) == IF Len(q) > 2 THEN Tail(q) ELSE q

\* self.client.async_fetch_data_html is looked up on a class that does not
\* define it: AttributeError, caught by `except Exception`, UpdateFailed. No
\* request is issued, nothing is parsed. The first refresh of a setup then
\* ends the setup with ConfigEntryNotReady.
AsyncUpdateData(c) ==
    /\ entry[c] \in {"first_refresh", "loaded"}
    /\ ~HasAttr("async_fetch_data_html")
    /\ refreshes' = [refreshes EXCEPT ![c] =
          Last2(Append(@, [expired |-> authed[c] /\ jar[session[c]] = NoAccount,
                           reqs |-> <<>>,
                           result |-> "UpdateFailed"]))]
    /\ entry' = [entry EXCEPT ![c] =
          IF @ = "first_refresh" THEN "ConfigEntryNotReady" ELSE @]
    /\ UNCHANGED <<setups, username, session, pc, force, attempt, status, html,
                   outcome, reqLog, pauses, steps, loginStatus, answered,
                   accepted, allForms, primaryLast, authed, jar, jarUsers>>
    /\ UNCHANGED <<coordVars, parserVars, fnVars, hostVars>>

--------------------------------------------------------------------------
(* The portal *)

\* The portal drops a login: the session cookie is no longer bound.
PortalExpire(s) ==
    /\ jar[s] # NoAccount
    /\ jar' = [jar EXCEPT ![s] = NoAccount]
    /\ UNCHANGED <<entry, setups, username, session, pc, force, attempt,
                   status, html, outcome, reqLog, pauses, steps, loginStatus,
                   answered, accepted, allForms, primaryLast, authed,
                   jarUsers, refreshes>>
    /\ UNCHANGED <<coordVars, parserVars, fnVars, hostVars>>

--------------------------------------------------------------------------

Next ==
    \/ \E c \in Accounts : AsyncSetupEntry(c)
    \/ \E c \in Accounts : LoginOnceGet(c)
    \/ \E c \in Accounts : LoginOncePost(c)
    \/ \E c \in Accounts : FetchAfterLoginOnce(c)
    \/ \E c \in Accounts : Sleep(c)
    \/ \E c \in Accounts : SetupAfterLogin(c)
    \/ \E c \in Accounts : AsyncUpdateData(c)
    \/ \E s \in Sessions : PortalExpire(s)

Spec == Init /\ [][Next]_vars

--------------------------------------------------------------------------
(* Properties of async_login_and_fetch_html *)

Returned(c) == pc[c] = "done" /\ outcome[c] = "return"

\* C1: whenever async_login_and_fetch_html returns normally, the returned
\* body holds neither a login.php form nor a password input.
C1_NoLoginPageReturned ==
    \A c \in Accounts : Returned(c) => ~ShowsLoginForm(html[c])

\* C1 witness: a call returns the account's data page from the fallback cycle.
C1_Witness ==
    \E c \in Accounts : Returned(c) /\ RootGets(c) = 2 /\ html[c] = DataPage(c)

\* C2: when every GET / and POST was accepted and every data response of
\* both sequences was 200 with a login form, the call ends with InvalidAuth,
\* after both cycles were run in full.
C2_AllFormsInvalidAuth ==
    \A c \in Accounts :
        (pc[c] = "done" /\ answered[c] /\ accepted[c] /\ allForms[c]) =>
            /\ outcome[c] = "InvalidAuth"
            /\ RootGets(c) = 2 /\ LoginPosts(c) = 2 /\ DataGets(c) = 9

\* C2 witness: a call that saw only login forms has raised InvalidAuth.
C2_Witness ==
    \E c \in Accounts :
        /\ pc[c] = "done" /\ outcome[c] = "InvalidAuth"
        /\ answered[c] /\ accepted[c] /\ allForms[c]

\* C3: once a data response of the primary sequence is 200 without a login
\* form, the call has returned that body, after exactly one GET / and one
\* POST and at most four data requests; the fallback cycle is not started.
C3_PrimarySuccessNoFallback ==
    \A c \in Accounts :
        primaryLast[c] = "page" =>
            /\ Returned(c)
            /\ ~force[c]
            /\ status[c] = 200 /\ ~ShowsLoginForm(html[c])
            /\ RootGets(c) = 1 /\ LoginPosts(c) = 1 /\ DataGets(c) <= 4

\* C3 witness: the data page arrives at the first retry of the primary
\* sequence, after one pause.
C3_Witness ==
    \E c \in Accounts :
        /\ primaryLast[c] = "page" /\ Returned(c) /\ html[c] = DataPage(c)
        /\ DataGets(c) = 2 /\ pauses[c] = <<2>>

\* The delay list the running cycle must use: the first cycle 0.2, 0.6, 1.0,
\* the fallback cycle 0.3, 0.8, 1.2, 2.0 (tenths of a second).
C4_DelayList(c) == IF RootGets(c) = 1 THEN <<2, 6, 10>> ELSE <<3, 8, 12, 20>>

\* C4: within a fetch sequence the data endpoint is requested again only
\* after a 200 answer with a login form; each retry follows exactly one
\* pause, the pauses are the delay list in order, and a sequence issues at
\* most len(delays)+1 data requests.
C4_RetryDiscipline ==
    \A c \in Accounts :
        LET n == SeqGets(reqLog[c]) IN
        /\ pc[c] \in {"sleep", "fetch_retry"} =>
              status[c] = 200 /\ ShowsLoginForm(html[c])
        /\ pc[c] = "fetch_retry" =>
              /\ Len(pauses[c]) = n
              /\ n <= Len(C4_DelayList(c))
              /\ pauses[c] = SubSeq(C4_DelayList(c), 1, n)
        /\ (n > 0 /\ pc[c] # "fetch_retry") =>
              /\ Len(pauses[c]) = n - 1
              /\ n <= Len(C4_DelayList(c)) + 1
              /\ pauses[c] = SubSeq(C4_DelayList(c), 1, n - 1)

\* C4 witness: the fallback sequence has used all four pauses and five requests.
C4_Witness ==
    \E c \in Accounts :
        /\ pc[c] = "done" /\ RootGets(c) = 2
        /\ SeqGets(reqLog[c]) = 5 /\ pauses[c] = <<3, 8, 12, 20>>

\* The requests of a call come in cycles: GET /, POST login.php, then one or
\* more GET getdata.php; a new cycle starts only after a data request.
WellOrdered(log) ==
    \A i \in 1..Len(log) :
        IF log[i].path = ROOT_PATH
        THEN log[i].method = "GET" /\ (i = 1 \/ log[i-1].path = AFTER_LOGIN_PATH)
        ELSE IF log[i].path = LOGIN_PATH
        THEN log[i].method = "POST" /\ i > 1 /\ log[i-1].path = ROOT_PATH
        ELSE /\ log[i].method = "GET" /\ log[i].path = AFTER_LOGIN_PATH
             /\ i > 1 /\ log[i-1].path \in {LOGIN_PATH, AFTER_LOGIN_PATH}

\* C5: the fallback cycle runs at most once per call, only after the primary
\* sequence ended with a 200 login form, and is a GET / with the no-cache
\* headers, a POST and a fetch sequence; a call issues at most 2 GET /,
\* 2 POST and 9 data GET and completes at most 20 requests and pauses in
\* all, and a call whose requests were all answered ends in a return,
\* InvalidAuth or CannotConnect.
C5_FallbackOnceAndTerminates ==
    \A c \in Accounts :
        /\ RootGets(c) <= 2 /\ LoginPosts(c) <= 2 /\ DataGets(c) <= 9
        /\ Len(reqLog[c]) <= steps[c] /\ steps[c] <= 2 + 2 + 9 + 7
        /\ RootGets(c) = 2 => primaryLast[c] = "form"
        /\ \A i \in 1..Len(reqLog[c]) :
              reqLog[c][i].path = ROOT_PATH => (reqLog[c][i].nocache <=> i > 1)
        /\ WellOrdered(reqLog[c])
        /\ (pc[c] = "done" /\ answered[c]) =>
              outcome[c] \in {"return", "InvalidAuth", "CannotConnect"}

\* C5 witness: a call has ended after 2 GET /, 2 POST and 9 data GET.
C5_Witness ==
    \E c \in Accounts :
        /\ pc[c] = "done"
        /\ RootGets(c) = 2 /\ LoginPosts(c) = 2 /\ DataGets(c) = 9
        /\ steps[c] = 20
        /\ reqLog[c][7] = Request("GET", ROOT_PATH, TRUE)

\* C6: the requests of a login cycle are issued in the order GET /, POST,
\* data GETs; a GET / or a POST answered with a status outside 200 and the
\* redirects ends the call with CannotConnect, the rejected request being
\* the last one issued.
C6_OrderAndRejection ==
    \A c \in Accounts :
        /\ WellOrdered(reqLog[c])
        /\ loginStatus[c] \notin ({0, 200} \cup Redirects) =>
              /\ pc[c] = "done" /\ outcome[c] = "CannotConnect"
              /\ reqLog[c][Len(reqLog[c])].path \in {ROOT_PATH, LOGIN_PATH}

\* C6 witness: a rejected GET / ended one call with no POST, a rejected POST
\* another with no data request.
C6_Witness ==
    \E c, d \in Accounts :
        /\ loginStatus[c] = 500 /\ pc[c] = "done" /\ Len(reqLog[c]) = 1
        /\ loginStatus[d] = 500 /\ pc[d] = "done" /\ Len(reqLog[d]) = 2

\* C7: every connectivity failure of a call (a request without an answer, a
\* GET / or POST with an unaccepted status, a data answer other than 200) is
\* reported as CannotConnect, InvalidAuth is raised only for a login form
\* after the fallback cycle, and nothing else reaches the caller.
C7_OnlyDeclaredErrors ==
    \A c \in Accounts :
        pc[c] = "done" =>
            /\ outcome[c] \in {"return", "InvalidAuth", "CannotConnect"}
            /\ (~answered[c] \/ ~accepted[c] \/ status[c] \notin {0, 200}) =>
                  outcome[c] = "CannotConnect"
            /\ outcome[c] = "InvalidAuth" =>
                  RootGets(c) = 2 /\ status[c] = 200 /\ ShowsLoginForm(html[c])

--------------------------------------------------------------------------
(* Properties of the refresh and of the sessions *)

\* C8: every refresh issues one cache-defeating GET of the data endpoint and
\* either returns the body or reports the session as expired.
C8_RefreshFetches ==
    \A c \in Accounts :
        \A i \in 1..Len(refreshes[c]) :
            /\ refreshes[c][i].reqs = <<Request("GET", AFTER_LOGIN_PATH, TRUE)>>
            /\ refreshes[c][i].result \in {"html", "SessionExpired"}

\* C9: no cookie jar is used by the requests of two clients, and no client
\* is handed a data page of another account.
C9_SessionsNotShared ==
    /\ \A s \in Sessions : Cardinality(jarUsers[s]) <= 1
    /\ \A c \in Accounts :
          (Returned(c) /\ html[c].account # NoAccount) => html[c].account = c

\* C10: the refresh that follows a refresh made on an expired session logs in
\* afresh (GET /, POST login.php) before it fetches the data page.
C10_ReloginAfterExpiry ==
    \A c \in Accounts :
        (Len(refreshes[c]) = 2 /\ refreshes[c][1].expired) =>
            LET q == refreshes[c][2].reqs IN
            /\ Len(q) >= 3
            /\ q[1].path = ROOT_PATH /\ q[2].path = LOGIN_PATH
            /\ q[3].path = AFTER_LOGIN_PATH

--------------------------------------------------------------------------
(* Text. A string is the sequence of its characters; the umlauts and the
   sharp s are the characters "A_uml", "a_uml", ..., "sz", the tabulator and
   the line feed are "TAB" and "NL". *)

UpperLetters == <<
    "A", "B", "C", "D", "E", "F", "G", "H", "I", "J", "K", "L", "M",
    "N", "O", "P", "Q", "R", "S", "T", "U", "V", "W", "X", "Y", "Z",
    "A_uml", "O_uml", "U_uml" >>
LowerLetters == <<
    "a", "b", "c", "d", "e", "f", "g", "h", "i", "j", "k", "l", "m",
    "n", "o", "p", "q", "r", "s", "t", "u", "v", "w", "x", "y", "z",
    "a_uml", "o_uml", "u_uml" >>
AsciiLower == {LowerLetters[i] : i \in 1..26}
AsciiUpper == {UpperLetters[i] : i \in 1..26}
DigitChars == {"0", "1", "2", "3", "4", "5", "6", "7", "8", "9"}
SpaceChars == {" ", "TAB", "NL"}

\* str.lower, one character
LowerChar(c) ==
    IF \E i \in 1..Len(UpperLetters) : UpperLetters[i] = c
    THEN LowerLetters[CHOOSE i \in 1..Len(UpperLetters) : UpperLetters[i] = c]
    ELSE c
\* str.lower
Lower(s) == [i \in 1..Len(s) |-> LowerChar(s[i])]

RECURSIVE LStrip(_, _)
LStrip(s, chars) ==
    IF s # <<>> /\ Head(s) \in chars THEN LStrip(Tail(s), chars) ELSE s
RECURSIVE RStrip(_, _)
RStrip(s, chars) ==
    IF s # <<>> /\ s[Len(s)] \in chars
    THEN RStrip(SubSeq(s, 1, Len(s) - 1), chars) ELSE s
\* str.strip()
Strip(s) == RStrip(LStrip(s, SpaceChars), SpaceChars)

\* re.sub(r"\s+", " ", s): every run of whitespace becomes one blank
RECURSIVE CollapseSpaces(_)
CollapseSpaces(s) ==
    IF s = <<>> THEN <<>>
    ELSE IF Head(s) \in SpaceChars
         THEN IF Len(s) > 1 /\ s[2] \in SpaceChars
              THEN CollapseSpaces(Tail(s))
              ELSE <<" ">> \o CollapseSpaces(Tail(s))
         ELSE <<Head(s)>> \o CollapseSpaces(Tail(s))
\* parser._norm and sensor._norm
Norm(s) == Strip(CollapseSpaces(s))

\* s begins at position i with the characters of w, letters compared
\* without case (re.IGNORECASE)
StartsAtCI(s, i, w) ==
    /\ i >= 1
    /\ i + Len(w) - 1 <= Len(s)
    /\ \A k \in 1..Len(w) : LowerChar(s[i + k - 1]) = LowerChar(w[k])

\* " ".join(parts)
RECURSIVE JoinBlank(_)
JoinBlank(parts) ==
    IF parts = <<>> THEN <<>>
    ELSE IF Len(parts) = 1 THEN parts[1]
    ELSE parts[1] \o <<" ">> \o JoinBlank(Tail(parts))


--------------------------------------------------------------------------
(* parser.py: the helpers of parse.

   A document is what BeautifulSoup makes of the HTML: the pupilinfo block,
   the text of the headline and paragraph elements, and the tables in
   document order. A table is its tr elements (each the texts of its td/th
   cells), the siblings before it (nearest first) and its ancestors (nearest
   first, each with the text of its first heading descendant). *)

HeadingNames == {"h1", "h2", "h3", "strong"}
SiblingHops == 6
AncestorHops == 4

S_datum == <<"d", "a", "t", "u", "m">>
S_zensur == <<"z", "e", "n", "s", "u", "r">>
S_fach == <<"f", "a", "c", "h">>
S_hausaufgaben == <<"h", "a", "u", "s", "a", "u", "f", "g", "a", "b", "e", "n">>
S_typ == <<"t", "y", "p">>
S_stunde == <<"s", "t", "u", "n", "d", "e">>
S_bemerkung == <<"b", "e", "m", "e", "r", "k", "u", "n", "g">>
S_unbekannt == <<"u", "n", "b", "e", "k", "a", "n", "n", "t">>
S_name == <<"n", "a", "m", "e">>
S_klasse == <<"k", "l", "a", "s", "s", "e">>

\* Python's `a or b` on strings
OrElse(a, b) == IF a # <<>> THEN a ELSE b

Range(f) == {f[x] : x \in DOMAIN f}

\* d[k] = v on a dict
DictSet(d, k, v) == [x \in DOMAIN d \cup {k} |-> IF x = k THEN v ELSE d[x]]

HasCells(tr) == tr # <<>>
\* _table_rows: the rows with at least one cell, every cell text normalized
TableRows(table) ==
    LET rs == SelectSeq(table.trs, HasCells)
    IN [i \in 1..Len(rs) |-> [j \in 1..Len(rs[i]) |-> Norm(rs[i][j])]]

RECURSIVE RowToEntryFrom(_, _, _, _)
RowToEntryFrom(headers, values, i, ent) ==
    IF i > Len(headers) THEN ent
    ELSE RowToEntryFrom(headers, values, i + 1,
             DictSet(ent, Norm(headers[i]),
                     Norm(IF i <= Len(values) THEN values[i] ELSE <<>>)))
\* a conversion that pairs the header with the cells present, as zip does
RowToEntry_Zip(headers, values) ==
    RowToEntryFrom(SubSeq(headers, 1, IF Len(values) < Len(headers)
                                      THEN Len(values) ELSE Len(headers)),
                   values, 1, <<>>)

\* _row_to_entry
RowToEntry(headers, values) == RowToEntryFrom(headers, values, 1, <<>>)

\* the first loop of _find_subject_for_table: up to SiblingHops previous siblings
RECURSIVE SiblingSearch(_, _)
SiblingSearch(before, hops) ==
    IF hops = 0 \/ before = <<>> THEN <<>>
    ELSE LET cur == Head(before)
         IN IF cur.name = "text" /\ cur.text = <<>> THEN <<>>
            ELSE IF cur.name \in HeadingNames /\ Norm(cur.text) # <<>>
                 THEN Norm(cur.text)
                 ELSE SiblingSearch(Tail(before), hops - 1)

\* the second loop: up to AncestorHops ancestors, the first heading inside each
RECURSIVE AncestorSearch(_, _)
AncestorSearch(ancestors, hops) ==
    IF hops = 0 \/ ancestors = <<>> THEN <<>>
    ELSE LET cur == Head(ancestors)
         IN IF cur.heading # <<>> /\ Norm(cur.heading[1]) # <<>>
            THEN Norm(cur.heading[1])
            ELSE AncestorSearch(Tail(ancestors), hops - 1)

\* the two loops in the other order
FindSubjectForTable_AncestorFirst(table) ==
    LET txt == AncestorSearch(table.ancestors, AncestorHops)
    IN IF txt # <<>> THEN txt ELSE SiblingSearch(table.before, SiblingHops)

\* _find_subject_for_table
FindSubjectForTable(table) ==
    LET txt == SiblingSearch(table.before, SiblingHops)
    IN IF txt # <<>> THEN txt ELSE AncestorSearch(table.ancestors, AncestorHops)

\* the mapping of subject_key: name, code
KnownSubjects == <<
    <<<<"d", "e", "u", "t", "s", "c", "h">>,
      <<"d", "e">>>>,
    <<<<"m", "a", "t", "h", "e", "m", "a", "t", "i", "k">>,
      <<"m", "a">>>>,
    <<<<"e", "n", "g", "l", "i", "s", "c", "h">>,
      <<"e", "n">>>>,
    <<<<"b", "i", "o", "l", "o", "g", "i", "e">>,
      <<"b", "i", "o">>>>,
    <<<<"c", "h", "e", "m", "i", "e">>,
      <<"c", "h">>>>,
    <<<<"p", "h", "y", "s", "i", "k">>,
      <<"p", "h">>>>,
    <<<<"g", "e", "s", "c", "h", "i", "c", "h", "t", "e">>,
      <<"g", "e">>>>,
    <<<<"e", "r", "d", "k", "u", "n", "d", "e">>,
      <<"e", "k">>>>,
    <<<<"s", "p", "o", "r", "t">>,
      <<"s", "p">>>>,
    <<<<"m", "u", "s", "i", "k">>,
      <<"m", "u">>>>,
    <<<<"k", "u", "n", "s", "t">>,
      <<"k", "u">>>>,
    <<<<"i", "n", "f", "o", "r", "m", "a", "t", "i", "k">>,
      <<"i", "n", "f">>>>,
    <<<<"f", "r", "a", "n", "z", "o_uml", "s", "i", "s", "c", "h">>,
      <<"f", "r">>>>,
    <<<<"l", "a", "t", "e", "i", "n">>,
      <<"l", "a">>>> >>

\* re.sub(r"[^a-z0-9]+", "", s)
SlugChar(c) == c \in AsciiLower \cup DigitChars
Slug(s) == SelectSeq(s, SlugChar)

Take(s, n) == SubSeq(s, 1, IF Len(s) < n THEN Len(s) ELSE n)
SlugLen == 3

\* subject_key without the lowering of the label
SubjectKey_NoLower(subject) ==
    LET s == Strip(subject)
    IN IF \E i \in 1..Len(KnownSubjects) : KnownSubjects[i][1] = s
       THEN KnownSubjects[CHOOSE i \in 1..Len(KnownSubjects) :
                              KnownSubjects[i][1] = s][2]
       ELSE OrElse(Take(Slug(s), SlugLen), S_fach)

\* subject_key
SubjectKey(subject) ==
    LET s == Lower(Strip(subject))
    IN IF \E i \in 1..Len(KnownSubjects) : KnownSubjects[i][1] = s
       THEN KnownSubjects[CHOOSE i \in 1..Len(KnownSubjects) :
                              KnownSubjects[i][1] = s][2]
       ELSE OrElse(Take(Slug(s), SlugLen), S_fach)

--------------------------------------------------------------------------
(* parser.py: the student record *)

NoStudent == [name |-> <<>>, klasse |-> <<>>]

RECURSIVE PupilRows(_, _)
PupilRows(rows, st) ==
    IF rows = <<>> THEN st
    ELSE LET r == Head(rows)
         IN IF Len(r) < 2 THEN PupilRows(Tail(rows), st)
            ELSE LET key == Lower(Strip(RStrip(r[1], {":"})))
                     val == r[2]
                 IN PupilRows(Tail(rows),
                        IF key = S_name THEN [st EXCEPT !.name = val]
                        ELSE IF key = S_klasse THEN [st EXCEPT !.klasse = val]
                        ELSE st)

\* _extract_student_from_pupilinfo; doc.pupilinfo is <<>> when the document
\* has no div.pupilinfo or the div holds no table, else <<its table>>
ExtractStudentFromPupilinfo(doc) ==
    IF doc.pupilinfo = <<>> THEN NoStudent
    ELSE PupilRows(TableRows(doc.pupilinfo[1]), NoStudent)

\* info_text of _extract_student_fallback; doc.texts are the texts of the
\* elements that match ".panel-hint, #content h1, #content h2, #content h3",
\* in document order
InfoText(doc) == JoinBlank([i \in 1..Len(doc.texts) |-> Norm(doc.texts[i])])

UpperSet == Range(UpperLetters)
LowerSet == Range(LowerLetters) \cup {"sz"}
WordChars == UpperSet \cup LowerSet \cup DigitChars \cup {"_"}
KlasseChars == AsciiUpper \cup AsciiLower \cup DigitChars \cup {"-", "_", "/"}

\* the end of the longest run of characters of cs that starts at i (i - 1 if none)
RECURSIVE RunEnd(_, _, _)
RunEnd(s, i, cs) ==
    IF i <= Len(s) /\ s[i] \in cs THEN RunEnd(s, i + 1, cs) ELSE i - 1

\* [A-Z...][a-z...]+ at i: the end of the word, 0 if there is none
CapWordEnd(s, i) ==
    IF i + 1 <= Len(s) /\ s[i] \in UpperSet /\ s[i + 1] \in LowerSet
    THEN RunEnd(s, i + 1, LowerSet) ELSE 0

AtWordEnd(s, j) == j = Len(s) \/ s[j + 1] \notin WordChars

\* (?:\s+Word)+ then \b, greedy: the end of the match of the name
\* pattern whose n-th word ends at j, 0 if it fails
RECURSIVE NameChainEnd(_, _, _)
NameChainEnd(s, j, n) ==
    LET k == RunEnd(s, j + 1, SpaceChars)
        e == IF k > j THEN CapWordEnd(s, k + 1) ELSE 0
        longer == IF e > 0 THEN NameChainEnd(s, e, n + 1) ELSE 0
    IN IF longer > 0 THEN longer
       ELSE IF n >= 2 /\ AtWordEnd(s, j) THEN j ELSE 0

\* re.search of the name pattern from position i on
RECURSIVE NameSearch(_, _)
NameSearch(s, i) ==
    IF i > Len(s) THEN <<>>
    ELSE LET e1 == IF i = 1 \/ s[i - 1] \notin WordChars
                   THEN CapWordEnd(s, i) ELSE 0
             e == IF e1 > 0 THEN NameChainEnd(s, e1, 1) ELSE 0
         IN IF e > 0 THEN SubSeq(s, i, e) ELSE NameSearch(s, i + 1)

\* re.search of klasse[:\s]+([A-Za-z0-9\-_/]+), without case
RECURSIVE KlasseSearch(_, _)
KlasseSearch(s, i) ==
    IF i > Len(s) THEN <<>>
    ELSE LET j == i + Len(S_klasse)
             k == RunEnd(s, j, SpaceChars \cup {":"})
             e == RunEnd(s, k + 1, KlasseChars)
         IN IF StartsAtCI(s, i, S_klasse) /\ k >= j /\ e > k
            THEN SubSeq(s, k + 1, e) ELSE KlasseSearch(s, i + 1)

\* _extract_student_fallback
ExtractStudentFallback(doc) ==
    [name |-> NameSearch(InfoText(doc), 1),
     klasse |-> KlasseSearch(InfoText(doc), 1)]

--------------------------------------------------------------------------
(* parser.py: parse *)

\* `name or f_name` with the fallback taking precedence
FillGaps_Override(p, f) ==
    [name |-> OrElse(f.name, p.name), klasse |-> OrElse(f.klasse, p.klasse)]

\* name = name or f_name; klasse = klasse or f_klasse
FillGaps(p, f) ==
    [name |-> OrElse(p.name, f.name), klasse |-> OrElse(p.klasse, f.klasse)]

\* if not (name and klasse)
NeedsFallback(p) == ~(p.name # <<>> /\ p.klasse # <<>>)

\* the student part of parse: the record and whether the fallback ran
Student(doc) ==
    LET p == ExtractStudentFromPupilinfo(doc)
    IN IF NeedsFallback(p)
       THEN [student |-> FillGaps(p, ExtractStudentFallback(doc)), fallback |-> TRUE]
       ELSE [student |-> p, fallback |-> FALSE]

\* soup.find_all("table"): the table of the pupilinfo block is a table too
AllTables(doc) == doc.pupilinfo \o doc.tables

\* the accumulators of a call that keeps those of the call before
FreshAcc_Stale(old) == old

\* grades_by_subject = {}, homework = [], remarks = [] at the start of a call
FreshAcc(old) == EmptyAcc

\* a loop that looks at every table, also one without rows
SkipTable_Never(rows) == FALSE

\* if not rows: continue
SkipTable(rows) == rows = <<>>

IsGradeHead(head) == S_datum \in Range(head) /\ S_zensur \in Range(head)
IsHomeworkHead(head) == {S_datum, S_fach, S_hausaufgaben} \subseteq Range(head)
IsRemarkHead(head) == {S_datum, S_typ, S_stunde, S_bemerkung} \subseteq Range(head)

\* the three tests of the loop with the homework test first
Classify_HomeworkFirst(head) ==
    IF IsHomeworkHead(head) THEN "homework"
    ELSE IF IsGradeHead(head) THEN "grades"
    ELSE IF IsRemarkHead(head) THEN "remarks"
    ELSE "none"

\* the three tests of the loop, each branch ending in `continue`
Classify(head) ==
    IF IsGradeHead(head) THEN "grades"
    ELSE IF IsHomeworkHead(head) THEN "homework"
    ELSE IF IsRemarkHead(head) THEN "remarks"
    ELSE "none"

\* the grade branch registering the key only together with its first record
GradeStep_OnlyWithRows(grades, key, entries) ==
    IF entries = <<>> THEN grades
    ELSE DictSet(grades, key,
                 (IF key \in DOMAIN grades THEN grades[key] ELSE <<>>) \o entries)

\* the grade branch assigning the rows of the table to the key
GradeStep_Overwrite(grades, key, entries) == DictSet(grades, key, entries)

\* grades_by_subject.setdefault(key, []), then one append per data row
GradeStep(grades, key, entries) ==
    DictSet(grades, key,
            (IF key \in DOMAIN grades THEN grades[key] ELSE <<>>) \o entries)

\* the body of the loop over the tables; run is the accumulators and the
\* exception raised so far
TableStep(run, table) ==
    LET rows == TableRows(table)
    IN IF run.raised # "none" \/ SkipTable(rows) THEN run
       ELSE IF rows = <<>> THEN [run EXCEPT !.raised = "IndexError"]
       ELSE LET head_raw == rows[1]
                head == [i \in 1..Len(head_raw) |-> Lower(head_raw[i])]
                entries == [i \in 1..(Len(rows) - 1) |->
                               RowToEntry(head_raw, rows[i + 1])]
                kind == Classify(head)
            IN IF kind = "grades"
               THEN [run EXCEPT !.grades =
                        GradeStep(@, SubjectKey(OrElse(FindSubjectForTable(table),
                                                       S_unbekannt)), entries)]
               ELSE IF kind = "homework"
               THEN [run EXCEPT !.homework = @ \o entries]
               ELSE IF kind = "remarks"
               THEN [run EXCEPT !.remarks = @ \o entries]
               ELSE run

RECURSIVE TableLoop(_, _)
TableLoop(run, tables) ==
    IF tables = <<>> THEN run
    ELSE TableLoop(TableStep(run, Head(tables)), Tail(tables))

\* parse(html), called with the accumulators old of the call before: the
\* snapshot it returns (<<>> if it raises), the exception, whether the
\* fallback ran, and the accumulators it leaves
Parse(old, doc) ==
    LET st == Student(doc)
        a0 == FreshAcc(old)
        run == TableLoop([grades |-> a0.grades, homework |-> a0.homework,
                          remarks |-> a0.remarks, raised |-> "none"],
                         AllTables(doc))
    IN [snapshot |-> IF run.raised = "none"
                     THEN <<[student |-> st.student, grades |-> run.grades,
                             homework |-> run.homework, remarks |-> run.remarks]>>
                     ELSE <<>>,
        raised |-> run.raised,
        fallback |-> st.fallback,
        acc |-> [grades |-> run.grades, homework |-> run.homework,
                 remarks |-> run.remarks]]


--------------------------------------------------------------------------
(* The documents parse is given *)

MaxTables == 2

\* a grade table with a header row only, under the heading Mathematik
GradeHeaderOnly ==
    [trs |-> <<<<<<"D", "a", "t", "u", "m">>, <<"Z", "e", "n", "s", "u", "r">>, <<"B", "e", "m", "e", "r", "k", "u", "n", "g">>>>>>,
     before |-> <<[name |-> "text", text |-> <<"NL">>], [name |-> "h3", text |-> <<"M", "a", "t", "h", "e", "m", "a", "t", "i", "k">>]>>,
     ancestors |-> <<>>]

\* a grade table with an upper-case header cell, a padded cell and a short row
GradeBiologie ==
    [trs |-> <<<<<<"D", "a", "t", "u", "m">>, <<"Z", "E", "N", "S", "U", "R">>>>,
              <<<<"1", ".", "2", ".">>, <<" ", "2", " ">>>>,
              <<<<"5", ".", "2", ".">>>>>>,
     before |-> <<[name |-> "h3", text |-> <<" ", "B", "i", "o", "l", "o", "g", "i", "e", " ">>]>>,
     ancestors |-> <<>>]

\* a second grade table of Mathematik, the heading found in an ancestor
GradeMathematik ==
    [trs |-> <<<<<<"d", "a", "t", "u", "m">>, <<"Z", "e", "n", "s", "u", "r">>>>,
              <<<<"2", ".", "3", ".">>, <<"1">>>>>>,
     before |-> <<>>,
     ancestors |-> <<[heading |-> <<>>], [heading |-> <<<<"M", "a", "t", "h", "e", "m", "a", "t", "i", "k">>>>]>>]

\* a header that passes the grade test and the homework test
GradeAndHomework ==
    [trs |-> <<<<<<"D", "a", "t", "u", "m">>, <<"F", "a", "c", "h">>, <<"H", "a", "u", "s", "a", "u", "f", "g", "a", "b", "e", "n">>, <<"Z", "e", "n", "s", "u", "r">>>>,
              <<<<"4", ".", "4", ".">>, <<"X", "y">>, <<"S", ".", " ", "1", "2">>, <<"4">>>>>>,
     before |-> <<[name |-> "strong", text |-> <<"X", "y", "l", "o", "p", "h", "o", "n", "k", "u", "n", "d", "e">>]>>,
     ancestors |-> <<>>]

\* a grade table without any heading
GradeNoHeading ==
    [trs |-> <<<<<<"D", "a", "t", "u", "m">>, <<"Z", "e", "n", "s", "u", "r">>>>,
              <<<<"8", ".", "8", ".">>, <<"-">>>>>>,
     before |-> <<>>,
     ancestors |-> <<>>]

\* a homework table
Homework ==
    [trs |-> <<<<<<"D", "a", "t", "u", "m">>, <<"F", "a", "c", "h">>, <<"H", "a", "u", "s", "a", "u", "f", "g", "a", "b", "e", "n">>>>,
              <<<<"6", ".", "6", ".">>, <<"M", "a">>, <<"N", "r", ".", " ", "3">>>>>>,
     before |-> <<[name |-> "h3", text |-> <<"H", "a", "u", "s", "a", "u", "f", "g", "a", "b", "e", "n">>]>>,
     ancestors |-> <<>>]

\* a header that passes the homework test and the remark test
HomeworkAndRemark ==
    [trs |-> <<<<<<"D", "a", "t", "u", "m">>, <<"T", "y", "p">>, <<"S", "t", "u", "n", "d", "e">>, <<"B", "e", "m", "e", "r", "k", "u", "n", "g">>, <<"F", "a", "c", "h">>, <<"H", "a", "u", "s", "a", "u", "f", "g", "a", "b", "e", "n">>>>,
              <<<<"9", ".", "9", ".">>, <<"T", "a", "d", "e", "l">>, <<"2">>, <<"l", "a", "u", "t">>, <<"D", "e">>, <<"S", ".", " ", "5">>>>>>,
     before |-> <<>>,
     ancestors |-> <<>>]

\* a remark table
Remark ==
    [trs |-> <<<<<<"D", "a", "t", "u", "m">>, <<"T", "y", "p">>, <<"S", "t", "u", "n", "d", "e">>, <<"B", "e", "m", "e", "r", "k", "u", "n", "g">>>>,
              <<<<"7", ".", "7", ".">>, <<"L", "o", "b">>, <<"3">>, <<"g", "u", "t">>>>>>,
     before |-> <<>>,
     ancestors |-> <<>>]

\* a table whose header matches none of the three tests
OtherTable ==
    [trs |-> <<<<<<"N", "a", "m", "e">>, <<"W", "e", "r", "t">>>>,
              <<<<"a">>, <<"b">>>>>>,
     before |-> <<[name |-> "h3", text |-> <<"S", "p", "o", "r", "t">>]>>,
     ancestors |-> <<>>]

\* a table whose only tr has no cells
NoRowsTable ==
    [trs |-> <<<<>>>>,
     before |-> <<[name |-> "h3", text |-> <<"K", "u", "n", "s", "t">>]>>,
     ancestors |-> <<>>]

TablePalette == {GradeHeaderOnly,
                 GradeBiologie,
                 GradeMathematik,
                 GradeAndHomework,
                 GradeNoHeading,
                 Homework,
                 HomeworkAndRemark,
                 Remark,
                 OtherTable,
                 NoRowsTable}

\* the pupilinfo block of the portal's page
PupilNameAndKlasse ==
    <<[trs |-> <<<<<<"N", "a", "m", "e", ":">>, <<"M", "a", "x", " ", "M", "u", "s", "t", "e", "r", "m", "a", "n", "n">>>>,
              <<<<"K", "l", "a", "s", "s", "e", ":">>, <<"7", "b">>>>>>,
       before |-> <<>>, ancestors |-> <<>>]>>

\* the pupilinfo block: absent, or its table
PupilBlocks == {
    <<>>,
    PupilNameAndKlasse,
    <<[trs |-> <<<<<<"N", "A", "M", "E", ":", ":">>, <<" ", "M", "a", "x", " ", " ", "M", "u", "s", "t", "e", "r", "m", "a", "n", "n">>>>,
              <<<<"x">>>>,
              <<<<"K", "l", "a", "s", "s", "e", ":">>, <<>>>>>>,
       before |-> <<>>, ancestors |-> <<>>]>>,
    <<[trs |-> <<<<<<"K", "l", "a", "s", "s", "e">>, <<"7", "b">>>>>>,
       before |-> <<>>, ancestors |-> <<>>]>> }

\* the texts of the hint and headline elements
HintTexts == {
    <<>>,
    <<<<"A", "n", "n", "a", " ", "S", "c", "h", "m", "i", "d", "t">>, <<"K", "l", "a", "s", "s", "e", ":", " ", "9", "c">>>>,
    <<<<"H", "o", "m", "e", " ", "I", "n", "f", "o", " ", "P", "o", "i", "n", "t">>, <<"k", "l", "a", "s", "s", "e">>>> }

\* a homework table with a row longer and a row shorter than the header
HomeworkUnevenRows ==
    [trs |-> <<<<<<"D", "a", "t", "u", "m">>, <<"F", "a", "c", "h">>, <<"H", "a", "u", "s", "a", "u", "f", "g", "a", "b", "e", "n">>>>,
              <<<<"1", ".", "9", ".">>, <<"M", "a">>, <<"S", ".", " ", "7">>, <<"x">>>>,
              <<<<"2", ".", "9", ".">>, <<"D", "e">>>>>>,
     before |-> <<>>,
     ancestors |-> <<>>]

\* a remark table with a header cell written twice and a padded header cell
RemarkRepeatedHeader ==
    [trs |-> <<<<<<"D", "a", "t", "u", "m">>, <<"T", "y", "p">>, <<"S", "t", "u", "n", "d", "e">>, <<"B", "e", "m", "e", "r", "k", "u", "n", "g">>, <<" ", "T", "y", "p", " ">>>>,
              <<<<"3", ".", "9", ".">>, <<"L", "o", "b">>, <<"3">>, <<"g", "u", "t">>, <<"T", "a", "d", "e", "l">>>>,
              <<<<"4", ".", "9", ".">>>>>>,
     before |-> <<>>,
     ancestors |-> <<>>]

\* pages whose rows and header differ in length
UnevenDocs == {
    [pupilinfo |-> <<>>, texts |-> <<>>,
     tables |-> <<HomeworkUnevenRows, RemarkRepeatedHeader>>],
    [pupilinfo |-> <<>>, texts |-> <<>>,
     tables |-> <<GradeBiologie, HomeworkUnevenRows, Homework>>] }

\* a grade table under a heading whose slug starts like Xylophonkunde
GradeXylit ==
    [trs |-> <<<<<<"D", "a", "t", "u", "m">>, <<"Z", "e", "n", "s", "u", "r">>>>,
              <<<<"5", ".", "9", ".">>, <<"3">>>>,
              <<<<"6", ".", "9", ".">>, <<"2">>>>>>,
     before |-> <<[name |-> "h2", text |-> <<"X", "y", "l", "i", "t">>]>>,
     ancestors |-> <<>>]

\* pages with several grade tables of one subject key
SameKeyDocs == {
    [pupilinfo |-> <<>>, texts |-> <<>>,
     tables |-> <<GradeAndHomework, GradeMathematik, GradeXylit, GradeHeaderOnly>>],
    [pupilinfo |-> <<>>, texts |-> <<>>,
     tables |-> <<GradeXylit, GradeNoHeading, GradeXylit>>] }

TableSeqs == UNION {[1..n -> TablePalette] : n \in 0..MaxTables}

\* pages with a table that is not recognized between recognized ones
LongDocs == {
    [pupilinfo |-> PupilNameAndKlasse, texts |-> <<>>,
     tables |-> <<Homework, OtherTable, Remark>>],
    [pupilinfo |-> <<>>, texts |-> <<>>,
     tables |-> <<GradeMathematik, NoRowsTable, Homework, Remark>>] }

\* every sequence of tables on the portal's page, every pupilinfo block and
\* hint text around at most one table, and the long pages
Docs ==
    {[pupilinfo |-> PupilNameAndKlasse, texts |-> <<>>, tables |-> ts] :
        ts \in TableSeqs}
    \cup LongDocs
    \cup UnevenDocs
    \cup SameKeyDocs
    \cup {[pupilinfo |-> p, texts |-> x, tables |-> ts] :
            p \in PupilBlocks, x \in HintTexts,
            ts \in {<<>>} \cup {<<t>> : t \in TablePalette}}

\* the documents of the calls made between two calls on the same document
OtherDocs == {
    EmptyDoc,
    [pupilinfo |-> <<>>, texts |-> <<>>,
     tables |-> <<GradeBiologie, Homework, Remark>>] }

--------------------------------------------------------------------------
(* Calls of parse *)

ParseInit ==
    /\ SessionInit
    /\ CoordInit
    /\ pdoc \in {<<d>> : d \in Docs}
    /\ ParserIdle
    /\ fnArg = <<>>
    /\ FnIdle
    /\ HostInit

\* one call parse(doc)
ParseApply(doc) ==
    LET r == Parse(acc, doc)
    IN /\ pdoc' = <<doc>>
       /\ snapshot' = r.snapshot
       /\ raised' = r.raised
       /\ fallbackCalled' = r.fallback
       /\ acc' = r.acc

\* the first call, on the document drawn
ParseCall ==
    /\ memo = <<>>
    /\ ParseApply(pdoc[1])
    /\ memo' = <<[doc |-> pdoc[1], snapshot |-> snapshot',
                  others |-> FALSE, again |-> FALSE]>>
    /\ UNCHANGED <<sessionVars, coordVars, fnVars, hostVars>>

\* a later call on some other document
ParseOther ==
    /\ memo # <<>>
    /\ \E d \in OtherDocs : ParseApply(d)
    /\ memo' = <<[memo[1] EXCEPT !.others = TRUE, !.again = FALSE]>>
    /\ UNCHANGED <<sessionVars, coordVars, fnVars, hostVars>>

\* a later call on the document of the first call
ParseAgain ==
    /\ memo # <<>>
    /\ ParseApply(memo[1].doc)
    /\ memo' = <<[memo[1] EXCEPT !.again = TRUE]>>
    /\ UNCHANGED <<sessionVars, coordVars, fnVars, hostVars>>

ParseNext == ParseCall \/ ParseOther \/ ParseAgain

ParseSpec == ParseInit /\ [][ParseNext]_vars

--------------------------------------------------------------------------
(* coordinator.py: _async_update_data, run against a client whose fetch
   returns a page or raises *)

\* the pages a fetch returns
RefreshDocs ==
    OtherDocs \cup {[pupilinfo |-> PupilNameAndKlasse, texts |-> <<>>,
                     tables |-> <<GradeHeaderOnly>>]}

FetchOutcomes ==
    {[kind |-> "raise", exc |-> e, doc |-> EmptyDoc] : e \in Exceptions}
    \cup {[kind |-> "html", exc |-> "none", doc |-> d] : d \in RefreshDocs}

\* the except clauses with the last one passing an empty page on
UpdateHandler_SwallowOther(exc) ==
    IF exc = "InvalidAuth" THEN "UpdateFailed"
    ELSE IF exc = "CannotConnect" THEN "UpdateFailed"
    ELSE "continue"

\* except InvalidAuth / except CannotConnect / except Exception
UpdateHandler(exc) ==
    IF exc = "InvalidAuth" THEN "UpdateFailed"
    ELSE IF exc = "CannotConnect" THEN "UpdateFailed"
    ELSE "UpdateFailed"

\* __init__.py: coordinator._entry_folder = entry_folder
SetEntryFolder ==
    /\ ~entryFolder
    /\ entryFolder' = TRUE
    /\ UNCHANGED <<data, lastJson, fetched, updResult, parsedHtml, prevData,
                   prevJson, hostSeen, sessionVars, parserVars, fnVars, hostVars>>

\* async_setup_entry when the login call raises e
SetupRaises(e) ==
    /\ hostSeen["async_setup_entry"][e] = "none"
    /\ hostSeen' = [hostSeen EXCEPT !["async_setup_entry"][e] = SetupResult(e)]
    /\ UNCHANGED <<data, lastJson, entryFolder, fetched, updResult, parsedHtml,
                   prevData, prevJson, sessionVars, parserVars, fnVars, hostVars>>

\* one refresh cycle whose fetch does r. The caller of _async_update_data
\* keeps coordinator.data when it raises and stores what it returns.
RefreshCycle(r) ==
    LET how == IF r.kind = "raise" THEN UpdateHandler(r.exc) ELSE "continue"
    IN /\ fetched' = r
       /\ prevData' = data
       /\ prevJson' = lastJson
       /\ IF how = "UpdateFailed"
          THEN /\ updResult' = "UpdateFailed"
               /\ parsedHtml' = <<>>
               /\ UNCHANGED <<data, lastJson, pdoc, snapshot, raised,
                              fallbackCalled, acc>>
          ELSE /\ ParseApply(r.doc)
               /\ parsedHtml' = <<r.doc>>
               /\ updResult' = IF raised' = "none" THEN "Snapshot" ELSE raised'
               /\ lastJson' = IF entryFolder /\ raised' = "none"
                              THEN snapshot' ELSE lastJson
               /\ data' = IF raised' = "none" THEN snapshot' ELSE data
       /\ hostSeen' = IF r.kind = "raise"
                      THEN [hostSeen EXCEPT !["_async_update_data"][r.exc] = updResult']
                      ELSE hostSeen
       /\ UNCHANGED <<entryFolder, memo, sessionVars, fnVars, hostVars>>

CoordNext ==
    \/ SetEntryFolder
    \/ \E e \in Exceptions : SetupRaises(e)
    \/ \E r \in FetchOutcomes : RefreshCycle(r)

CoordSpec == Init /\ [][CoordNext]_vars

--------------------------------------------------------------------------
(* Properties of the exception handlers *)

\* C11: in each handler that was given both, an InvalidAuth and a
\* CannotConnect show the host different outcomes, at entry setup and in the
\* refresh cycle.
C11_AuthDistinctFromConnect ==
    \A h \in Handlers :
        hostSeen[h]["InvalidAuth"] # "none" /\ hostSeen[h]["CannotConnect"] # "none"
            => hostSeen[h]["InvalidAuth"] # hostSeen[h]["CannotConnect"]

\* C12: a refresh cycle whose fetch raised (InvalidAuth, CannotConnect or
\* anything else) ended as UpdateFailed, parsed nothing, left last.json and
\* the consumers' snapshot as they were; a cycle that returned a snapshot had
\* a fetch that returned a page, and the snapshot is the parse of that page.
C12_FailedRefreshIsWhole ==
    /\ fetched.kind = "raise" =>
          /\ updResult = "UpdateFailed"
          /\ parsedHtml = <<>>
          /\ lastJson = prevJson
          /\ data = prevData
    /\ updResult = "Snapshot" =>
          /\ fetched.kind = "html"
          /\ parsedHtml = <<fetched.doc>>
          /\ data = snapshot
          /\ pdoc = <<fetched.doc>>

\* a fetch fails after a cycle that had delivered a snapshot and written
\* last.json: both are kept
C12_Witness ==
    /\ fetched.kind = "raise"
    /\ updResult = "UpdateFailed"
    /\ prevData # <<>>
    /\ data = prevData
    /\ lastJson # <<>>
    /\ lastJson = prevJson

--------------------------------------------------------------------------
(* Properties of parse *)

\* the called document, what it was turned into, and its tables
CalledDoc == pdoc[1]
ParseReturned == memo # <<>> /\ snapshot # <<>>

\* the lowercased header row of a table that has rows
HeaderCells(t) == {Lower(c) : c \in Range(TableRows(t)[1])}
HasRows(t) == TableRows(t) # <<>>
\* the records of the data rows of a table
Records(t) ==
    [i \in 1..(Len(TableRows(t)) - 1) |->
        RowToEntry(TableRows(t)[1], TableRows(t)[i + 1])]

\* the kind of a table as the priority order grade, homework, remark has it
KindOf(t) ==
    IF ~HasRows(t) THEN "none"
    ELSE IF {S_datum, S_zensur} \subseteq HeaderCells(t) THEN "grades"
    ELSE IF {S_datum, S_fach, S_hausaufgaben} \subseteq HeaderCells(t) THEN "homework"
    ELSE IF {S_datum, S_typ, S_stunde, S_bemerkung} \subseteq HeaderCells(t) THEN "remarks"
    ELSE "none"

\* the subject key a grade table resolves to
ResolvedKey(t) == SubjectKey(OrElse(FindSubjectForTable(t), S_unbekannt))

GradeTables(doc) ==
    {i \in 1..Len(AllTables(doc)) : KindOf(AllTables(doc)[i]) = "grades"}

\* C13: the keys of the grades mapping are exactly the subject keys the grade
\* tables of the document resolve to, whatever their number of data rows, and
\* a key whose grade tables all have only a header row maps to the empty
\* sequence.
C13_GradeKeysRegistered ==
    ParseReturned =>
        LET ts == AllTables(CalledDoc)
            G == GradeTables(CalledDoc)
            grades == snapshot[1].grades
        IN /\ DOMAIN grades = {ResolvedKey(ts[i]) : i \in G}
           /\ \A i \in G :
                (\A j \in G : ResolvedKey(ts[j]) = ResolvedKey(ts[i])
                                 => Len(TableRows(ts[j])) = 1)
                    => grades[ResolvedKey(ts[i])] = <<>>

\* a grade table with a header row only was parsed next to one with records
C13_Witness ==
    /\ ParseReturned
    /\ CalledDoc.tables = <<GradeHeaderOnly, GradeBiologie>>
    /\ ResolvedKey(GradeHeaderOnly) \in DOMAIN snapshot[1].grades
    /\ snapshot[1].grades[ResolvedKey(GradeHeaderOnly)] = <<>>
    /\ Len(snapshot[1].grades[ResolvedKey(GradeBiologie)]) = 2

\* the records of the tables of one kind, in document order; for the grade
\* tables those that resolve to key
RECURSIVE RecordsOfKind(_, _, _)
RecordsOfKind(tables, kind, key) ==
    IF tables = <<>> THEN <<>>
    ELSE (IF KindOf(Head(tables)) = kind
             /\ (kind = "grades" => ResolvedKey(Head(tables)) = key)
          THEN Records(Head(tables)) ELSE <<>>)
         \o RecordsOfKind(Tail(tables), kind, key)

\* the number of records of a snapshot
RECURSIVE CountGrades(_, _)
CountGrades(grades, keys) ==
    IF keys = {} THEN 0
    ELSE LET k == CHOOSE x \in keys : TRUE
         IN Len(grades[k]) + CountGrades(grades, keys \ {k})
RECURSIVE CountDataRows(_)
CountDataRows(tables) ==
    IF tables = <<>> THEN 0
    ELSE (IF KindOf(Head(tables)) = "none" THEN 0 ELSE Len(Records(Head(tables))))
         + CountDataRows(Tail(tables))

\* C14: each table with rows is classified by its lowercased header, grade
\* test first, then homework, then remark, and its data rows are added to the
\* collection of that kind only: homework, remarks and every grades entry are
\* the records of the tables of that kind, and no row is in two collections.
C14_OneCollectionPerTable ==
    ParseReturned =>
        LET ts == AllTables(CalledDoc)
            s == snapshot[1]
        IN /\ s.homework = RecordsOfKind(ts, "homework", <<>>)
           /\ s.remarks = RecordsOfKind(ts, "remarks", <<>>)
           /\ \A k \in DOMAIN s.grades : s.grades[k] = RecordsOfKind(ts, "grades", k)
           /\ CountGrades(s.grades, DOMAIN s.grades) + Len(s.homework)
                 + Len(s.remarks) = CountDataRows(ts)

\* a table whose header passes the grade and the homework test went to
\* grades, one whose header passes the homework and the remark test to homework
C14_Witness ==
    /\ ParseReturned
    /\ CalledDoc.tables = <<GradeAndHomework, HomeworkAndRemark>>
    /\ DOMAIN snapshot[1].grades = {ResolvedKey(GradeAndHomework)}
    /\ snapshot[1].homework = Records(HomeworkAndRemark)
    /\ snapshot[1].remarks = <<>>

--------------------------------------------------------------------------
(* Calls of the pure helpers: the argument is drawn, the helper applied *)

MaxLabelLen == 3

\* str.upper, for the labels
UpperChar(c) ==
    IF \E i \in 1..Len(LowerLetters) : LowerLetters[i] = c
    THEN UpperLetters[CHOOSE i \in 1..Len(LowerLetters) : LowerLetters[i] = c]
    ELSE c
UpperCase(s) == [i \in 1..Len(s) |-> UpperChar(s[i])]
Capitalized(s) == [i \in 1..Len(s) |-> IF i = 1 THEN UpperChar(s[i]) ELSE s[i]]

LabelChars == {"A", "b", "o_uml", "1", " ", "-"}

\* the headings subject_key is given: the known names in three spellings,
\* some longer names, and every short string over LabelChars
Labels ==
    UNION {{KnownSubjects[i][1], UpperCase(KnownSubjects[i][1]),
            <<" ">> \o Capitalized(KnownSubjects[i][1]) \o <<"NL">>} :
                i \in 1..Len(KnownSubjects)}
    \cup {<<"X", "y", "l", "o", "p", "h", "o", "n", "k", "u", "n", "d", "e">>,
          <<"O_uml", "k", "o", "l", "o", "g", "i", "e">>,
          <<"M", "a", "t", "h", "e", "m", "a", "t", "i", "k", " ", "A", "G">>,
          <<"M", "a", "sz", "e">>,
          <<"u", "n", "b", "e", "k", "a", "n", "n", "t">>}
    \cup UNION {[1..n -> LabelChars] : n \in 0..MaxLabelLen}

SubjectKeyArgs == {[for |-> "subject_key", value |-> l] : l \in Labels}

\* subject_key(label)
CallSubjectKey ==
    /\ fnName = "none"
    /\ fnArg.for = "subject_key"
    /\ fnName' = "subject_key"
    /\ fnRet' = SubjectKey(fnArg.value)
    /\ UNCHANGED <<fnArg, sessionVars, coordVars, parserVars, hostVars>>

SubjectKeyInit ==
    /\ SessionInit
    /\ CoordInit
    /\ pdoc = <<>>
    /\ ParserIdle
    /\ fnArg \in SubjectKeyArgs
    /\ FnIdle
    /\ HostInit

SubjectKeySpec == SubjectKeyInit /\ [][CallSubjectKey]_vars

--------------------------------------------------------------------------
(* Properties of subject_key *)

\* the fixed code of a known subject name, <<>> for any other string
CodeOf(s) ==
    IF \E i \in 1..Len(KnownSubjects) : KnownSubjects[i][1] = s
    THEN KnownSubjects[CHOOSE i \in 1..Len(KnownSubjects) : KnownSubjects[i][1] = s][2]
    ELSE <<>>

\* the characters of s that are in cs, in order
RECURSIVE Keep(_, _)
Keep(s, cs) ==
    IF s = <<>> THEN <<>>
    ELSE (IF Head(s) \in cs THEN <<Head(s)>> ELSE <<>>) \o Keep(Tail(s), cs)

\* letters and digits, the umlauts and the sharp s among the letters
Alphanumerics == UpperSet \cup LowerSet \cup DigitChars
\* the letters a-z and the digits only
AsciiAlphanumerics == AsciiLower \cup DigitChars

\* what the claim says subject_key returns when cs are the characters kept
SubjectKeyAsClaimed(label, cs) ==
    LET t == Lower(Strip(label))
        left == Keep(t, cs)
    IN IF CodeOf(t) # <<>> THEN CodeOf(t)
       ELSE IF left = <<>> THEN S_fach
       ELSE SubSeq(left, 1, IF Len(left) < 3 THEN Len(left) ELSE 3)

\* C15 as stated: a known name (trimmed, lowercased) gives its code, any
\* other label the first three characters left after lowercasing and removing
\* every character that is not a letter or a digit, or "fach" when none is
\* left; the result is never empty.
C15_FirstThreeAlphanumerics ==
    fnName = "subject_key" =>
        /\ fnRet = SubjectKeyAsClaimed(fnArg.value, Alphanumerics)
        /\ fnRet # <<>>

\* C15, amended: as above, with every character other than a-z and 0-9
\* removed, the umlauts and the sharp s included.
C15_FirstThreeAsciiAlphanumerics ==
    fnName = "subject_key" =>
        /\ fnRet = SubjectKeyAsClaimed(fnArg.value, AsciiAlphanumerics)
        /\ fnRet # <<>>

\* subject_key was called on a label that starts with an umlaut
C15_Witness ==
    /\ fnName = "subject_key"
    /\ fnArg.value = <<"O_uml", "k", "o", "l", "o", "g", "i", "e">>
    /\ fnRet = <<"k", "o", "l">>

--------------------------------------------------------------------------
(* Further properties of parse *)

IsRecognized(t) == KindOf(t) # "none"

\* the page with only its recognized tables
RecognizedOnly(doc) ==
    [pupilinfo |-> <<>>, texts |-> <<>>,
     tables |-> SelectSeq(AllTables(doc), IsRecognized)]

\* C16: no call of parse raises; the tables without rows and those whose
\* header matches none of the three tests add nothing: the three collections
\* are those of the page with these tables taken out, and a page without
\* tables gives three empty collections.
C16_UnrecognizedTablesAddNothing ==
    memo # <<>> =>
        /\ raised = "none"
        /\ snapshot # <<>>
        /\ LET r == Parse(EmptyAcc, RecognizedOnly(CalledDoc)).snapshot[1]
           IN /\ snapshot[1].grades = r.grades
              /\ snapshot[1].homework = r.homework
              /\ snapshot[1].remarks = r.remarks
        /\ AllTables(CalledDoc) = <<>> =>
              /\ snapshot[1].grades = <<>>
              /\ snapshot[1].homework = <<>>
              /\ snapshot[1].remarks = <<>>

\* a table that is not recognized stood between two recognized ones, after
\* the pupilinfo table, which is not recognized either
C16_Witness ==
    /\ ParseReturned
    /\ CalledDoc.pupilinfo # <<>>
    /\ CalledDoc.tables = <<Homework, OtherTable, Remark>>
    /\ snapshot[1].homework = Records(Homework)
    /\ snapshot[1].remarks = Records(Remark)
    /\ snapshot[1].grades = <<>>

\* C17: the fallback heuristics are evaluated exactly when the pupilinfo
\* block left the name or the class empty, and each field of the student
\* record is the block's value when that is not empty, else the fallback's.
C17_FallbackFillsGapsOnly ==
    ParseReturned =>
        LET p == ExtractStudentFromPupilinfo(CalledDoc)
            f == ExtractStudentFallback(CalledDoc)
            st == snapshot[1].student
        IN /\ fallbackCalled <=> (p.name = <<>> \/ p.klasse = <<>>)
           /\ st.name = IF p.name # <<>> THEN p.name ELSE f.name
           /\ st.klasse = IF p.klasse # <<>> THEN p.klasse ELSE f.klasse

\* the block gave a name and no class, the heuristics found another name
\* and a class: the name is the block's, the class the fallback's
C17_Witness ==
    /\ ParseReturned
    /\ fallbackCalled
    /\ ExtractStudentFromPupilinfo(CalledDoc).name # <<>>
    /\ ExtractStudentFromPupilinfo(CalledDoc).klasse = <<>>
    /\ ExtractStudentFallback(CalledDoc).name
          \notin {<<>>, ExtractStudentFromPupilinfo(CalledDoc).name}
    /\ ExtractStudentFallback(CalledDoc).klasse # <<>>
    /\ snapshot[1].student.name = ExtractStudentFromPupilinfo(CalledDoc).name
    /\ snapshot[1].student.klasse = ExtractStudentFallback(CalledDoc).klasse

\* C18: whatever calls were made in between, a call of parse on the document
\* of the first call returns the snapshot the first call returned: the same
\* student, grades, homework and remarks.
C18_SameDocumentSameSnapshot ==
    memo # <<>> /\ pdoc = <<memo[1].doc>> =>
        /\ raised = "none"
        /\ snapshot = memo[1].snapshot

\* the document of the first call, with records of all three kinds, was
\* parsed again after a call on another document
C18_Witness ==
    /\ memo # <<>>
    /\ memo[1].others
    /\ memo[1].again
    /\ pdoc = <<memo[1].doc>>
    /\ snapshot = memo[1].snapshot
    /\ snapshot # <<>>
    /\ snapshot[1].homework # <<>>
    /\ snapshot[1].remarks # <<>>
    /\ DOMAIN snapshot[1].grades # {}
    /\ pdoc[1] \notin OtherDocs

--------------------------------------------------------------------------
(* sensor.py: the average of the subject sensor. The state is held in
   hundredths: 200 is 2.0, 133 is 1.33. *)

MaxEntries == 3

S_Zensur == <<"Z", "e", "n", "s", "u", "r">>
DigitSeq == <<"0", "1", "2", "3", "4", "5", "6", "7", "8", "9">>
\* int(s) of a one-digit string
DigitValue(c) == (CHOOSE i \in 1..Len(DigitSeq) : DigitSeq[i] = c) - 1

\* _first_of: the value of the first of the keys that d has with a
\* non-empty value, "" if there is none
RECURSIVE FirstOf(_, _)
FirstOf(d, keys) ==
    IF keys = <<>> THEN <<>>
    ELSE IF Head(keys) \in DOMAIN d /\ d[Head(keys)] # <<>> THEN d[Head(keys)]
    ELSE FirstOf(d, Tail(keys))

\* a pattern that takes every digit
GradeIntMatch_AnyDigit(s) == Len(s) = 1 /\ s[1] \in DigitChars

\* _GRADE_INT_RE.match(s): ^[1-6]$
GradeIntMatch(s) == Len(s) = 1 /\ s[1] \in {"1", "2", "3", "4", "5", "6"}

\* _numeric_grades_1_to_6
RECURSIVE NumericGrades1To6(_)
NumericGrades1To6(entries) ==
    IF entries = <<>> THEN <<>>
    ELSE LET s == Norm(FirstOf(Head(entries), <<S_Zensur, S_zensur>>))
         IN (IF GradeIntMatch(s) THEN <<DigitValue(s[1])>> ELSE <<>>)
            \o NumericGrades1To6(Tail(entries))

RECURSIVE Sum(_)
Sum(vals) == IF vals = <<>> THEN 0 ELSE Head(vals) + Sum(Tail(vals))

\* round(total / n, 2) in hundredths: the nearest hundredth, a tie to the even one
Round2(total, n) ==
    LET q == (100 * total) \div n
        r == (100 * total) % n
    IN IF 2 * r < n THEN q
       ELSE IF 2 * r > n THEN q + 1
       ELSE IF q % 2 = 0 THEN q ELSE q + 1

\* native_value
NativeValue(entries) ==
    LET vals == NumericGrades1To6(entries)
    IN IF vals = <<>> THEN 0 ELSE Round2(Sum(vals), Len(vals))

\* extra_state_attributes: total_entries and valid_count
ExtraStateAttributes(entries) ==
    [total_entries |-> Len(entries),
     valid_count |-> Len(NumericGrades1To6(entries))]

\* the grade records a subject can hold
EntryPalette == {
    (<<"Z", "e", "n", "s", "u", "r">> :> <<"2">>),
    (<<"D", "a", "t", "u", "m">> :> <<"1", ".", "2", ".">> @@ <<"Z", "e", "n", "s", "u", "r">> :> <<"3">>),
    (<<"Z", "e", "n", "s", "u", "r">> :> <<"-">>),
    (<<"Z", "e", "n", "s", "u", "r">> :> <<"1">>),
    (<<"Z", "e", "n", "s", "u", "r">> :> <<" ", "6", " ">>),
    (<<"Z", "e", "n", "s", "u", "r">> :> <<"2", "+">>),
    (<<"Z", "e", "n", "s", "u", "r">> :> <<"7">>),
    (<<"z", "e", "n", "s", "u", "r">> :> <<"4">>),
    (<<"Z", "E", "N", "S", "U", "R">> :> <<"5">>),
    (<<"D", "a", "t", "u", "m">> :> <<"3", ".", "4", ".">>) }

\* the marks 2, 3, -, 1
ExampleEntries == <<(<<"Z", "e", "n", "s", "u", "r">> :> <<"2">>), (<<"D", "a", "t", "u", "m">> :> <<"1", ".", "2", ".">> @@ <<"Z", "e", "n", "s", "u", "r">> :> <<"3">>), (<<"Z", "e", "n", "s", "u", "r">> :> <<"-">>), (<<"Z", "e", "n", "s", "u", "r">> :> <<"1">>)>>

EntryLists ==
    UNION {[1..n -> EntryPalette] : n \in 0..MaxEntries} \cup {ExampleEntries}

SensorArgs == {[for |-> "sensor", value |-> es] : es \in EntryLists}

\* the state and the attributes of the sensor of a subject with these records
CallSensor ==
    /\ fnName = "none"
    /\ fnArg.for = "sensor"
    /\ fnName' = "sensor"
    /\ fnRet' = [state |-> NativeValue(fnArg.value),
                 attributes |-> ExtraStateAttributes(fnArg.value)]
    /\ UNCHANGED <<fnArg, sessionVars, coordVars, parserVars, hostVars>>

SensorInit ==
    /\ SessionInit
    /\ CoordInit
    /\ pdoc = <<>>
    /\ ParserIdle
    /\ fnArg \in SensorArgs
    /\ FnIdle
    /\ HostInit

SensorSpec == SensorInit /\ [][CallSensor]_vars

--------------------------------------------------------------------------
(* Properties of the subject sensor *)

\* the Zensur of a record: its field Zensur or, when that is missing or
\* empty, its field zensur; whitespace normalized
ZensurOf(e) ==
    Norm(IF S_Zensur \in DOMAIN e /\ e[S_Zensur] # <<>> THEN e[S_Zensur]
         ELSE IF S_zensur \in DOMAIN e THEN e[S_zensur]
         ELSE <<>>)

\* the positions of the records whose Zensur is a single digit 1..6
ValidMarks(es) ==
    {i \in 1..Len(es) :
        \E d \in 1..6 : ZensurOf(es[i]) = <<DigitSeq[d + 1]>>}

RECURSIVE MarkSum(_, _)
MarkSum(es, is) ==
    IF is = {} THEN 0
    ELSE LET i == CHOOSE x \in is : TRUE
         IN DigitValue(ZensurOf(es[i])[1]) + MarkSum(es, is \ {i})

Abs(x) == IF x < 0 THEN -x ELSE x

\* what C19 says of the counts: valid_count is the number of records with a
\* mark 1..6, total_entries the number of all records, and without such a
\* record the state is 0
CountsAsClaimed ==
    LET es == fnArg.value
        n == Cardinality(ValidMarks(es))
    IN /\ fnRet.attributes.valid_count = n
       /\ fnRet.attributes.total_entries = Len(es)
       /\ n = 0 => fnRet.state = 0

\* C19 as stated: the counts are as above, and with n > 0 marks 1..6 the
\* state is their sum divided by n.
C19_AverageIsSumByCount ==
    fnName = "sensor" =>
        /\ CountsAsClaimed
        /\ LET es == fnArg.value
               n == Cardinality(ValidMarks(es))
           IN n > 0 => fnRet.state * n = 100 * MarkSum(es, ValidMarks(es))

\* C19, amended: the counts are as above, and with n > 0 marks 1..6 the
\* state is their sum divided by n, rounded to two decimals: it is a whole
\* number of hundredths, at most half a hundredth from the quotient.
C19_AverageIsRoundedQuotient ==
    fnName = "sensor" =>
        /\ CountsAsClaimed
        /\ LET es == fnArg.value
               n == Cardinality(ValidMarks(es))
           IN n > 0 =>
                2 * Abs(fnRet.state * n - 100 * MarkSum(es, ValidMarks(es))) <= n

\* the marks 2, 3, -, 1 gave 2.0 with three of four records counted
C19_Witness ==
    /\ fnName = "sensor"
    /\ fnArg.value = ExampleEntries
    /\ fnRet.state = 200
    /\ fnRet.attributes.valid_count = 3
    /\ fnRet.attributes.total_entries = 4

--------------------------------------------------------------------------
(* api.py: LOGIN_FORM_RE on the characters of a body *)

MaxTags == 2

QuoteChars == {"\"", "'"}

\* one alternative of LOGIN_FORM_RE, with re.IGNORECASE:
\*   open [^>]+ attr ["']? val ["']? [^>]* >
MarkupMatch(s, open, attr, val) ==
    \E i \in 1..Len(s) : \E j \in (i + Len(open) + 1)..Len(s) :
        /\ StartsAtCI(s, i, open)
        /\ \A k \in (i + Len(open))..(j - 1) : s[k] # ">"
        /\ StartsAtCI(s, j, attr)
        /\ LET v == j + Len(attr)
               w == IF v <= Len(s) /\ s[v] \in QuoteChars THEN v + 1 ELSE v
           IN /\ StartsAtCI(s, w, val)
              /\ \E m \in (w + Len(val))..Len(s) : s[m] = ">"

S_formOpen == <<"<", "f", "o", "r", "m">>
S_actionEq == <<"a", "c", "t", "i", "o", "n", "=">>
S_loginPhp == <<"l", "o", "g", "i", "n", ".", "p", "h", "p">>
S_inputOpen == <<"<", "i", "n", "p", "u", "t">>
S_typeEq == <<"t", "y", "p", "e", "=">>
S_password == <<"p", "a", "s", "s", "w", "o", "r", "d">>

\* the pattern without its second alternative
LoginFormReSearch_FormOnly(s) == MarkupMatch(s, S_formOpen, S_actionEq, S_loginPhp)

\* bool(LOGIN_FORM_RE.search(html)), as _looks_like_login_form returns it
LoginFormReSearch(s) ==
    \/ MarkupMatch(s, S_formOpen, S_actionEq, S_loginPhp)
    \/ MarkupMatch(s, S_inputOpen, S_typeEq, S_password)

(* The bodies: sequences of tags, each a name and attributes; an attribute
   is written name=value, the value in its quotes, with blanks around the
   equals sign when it is spaced. *)

RECURSIVE RenderAttrs(_)
RenderAttrs(attrs) ==
    IF attrs = <<>> THEN <<>>
    ELSE LET a == Head(attrs)
         IN <<" ">> \o a.name \o (IF a.spaced THEN <<" ", "=", " ">> ELSE <<"=">>)
            \o a.quote \o a.value \o a.quote \o RenderAttrs(Tail(attrs))
RenderTag(t) == <<"<">> \o t.name \o RenderAttrs(t.attrs) \o <<">">>
RECURSIVE RenderBody(_)
RenderBody(tags) ==
    IF tags = <<>> THEN <<>> ELSE RenderTag(Head(tags)) \o RenderBody(Tail(tags))

\* <form action="login.php">
FormLoginTag ==
    [name |-> <<"f", "o", "r", "m">>,
     attrs |-> <<[name |-> <<"a", "c", "t", "i", "o", "n">>, value |-> <<"l", "o", "g", "i", "n", ".", "p", "h", "p">>, quote |-> <<"\"">>, spaced |-> FALSE]>>]

\* <FORM METHOD=post ACTION='LOGIN.PHP'>
UpperFormLoginTag ==
    [name |-> <<"F", "O", "R", "M">>,
     attrs |-> <<[name |-> <<"M", "E", "T", "H", "O", "D">>, value |-> <<"p", "o", "s", "t">>, quote |-> <<>>, spaced |-> FALSE],
               [name |-> <<"A", "C", "T", "I", "O", "N">>, value |-> <<"L", "O", "G", "I", "N", ".", "P", "H", "P">>, quote |-> <<"'">>, spaced |-> FALSE]>>]

\* <input type="password">
PasswordInputTag ==
    [name |-> <<"i", "n", "p", "u", "t">>,
     attrs |-> <<[name |-> <<"t", "y", "p", "e">>, value |-> <<"p", "a", "s", "s", "w", "o", "r", "d">>, quote |-> <<"\"">>, spaced |-> FALSE]>>]

\* <input name=pw type=password>
BarePasswordInputTag ==
    [name |-> <<"i", "n", "p", "u", "t">>,
     attrs |-> <<[name |-> <<"n", "a", "m", "e">>, value |-> <<"p", "w">>, quote |-> <<>>, spaced |-> FALSE],
               [name |-> <<"t", "y", "p", "e">>, value |-> <<"p", "a", "s", "s", "w", "o", "r", "d">>, quote |-> <<>>, spaced |-> FALSE]>>]

\* <input type="text">
TextInputTag ==
    [name |-> <<"i", "n", "p", "u", "t">>,
     attrs |-> <<[name |-> <<"t", "y", "p", "e">>, value |-> <<"t", "e", "x", "t">>, quote |-> <<"\"">>, spaced |-> FALSE]>>]

\* <form action="search.php">
SearchFormTag ==
    [name |-> <<"f", "o", "r", "m">>,
     attrs |-> <<[name |-> <<"a", "c", "t", "i", "o", "n">>, value |-> <<"s", "e", "a", "r", "c", "h", ".", "p", "h", "p">>, quote |-> <<"\"">>, spaced |-> FALSE]>>]

\* <p>
ParagraphTag ==
    [name |-> <<"p">>,
     attrs |-> <<>>]

\* <input type = "password">
SpacedPasswordInputTag ==
    [name |-> <<"i", "n", "p", "u", "t">>,
     attrs |-> <<[name |-> <<"t", "y", "p", "e">>, value |-> <<"p", "a", "s", "s", "w", "o", "r", "d">>, quote |-> <<"\"">>, spaced |-> TRUE]>>]

\* <input data-type="password">
DataTypeInputTag ==
    [name |-> <<"i", "n", "p", "u", "t">>,
     attrs |-> <<[name |-> <<"d", "a", "t", "a", "-", "t", "y", "p", "e">>, value |-> <<"p", "a", "s", "s", "w", "o", "r", "d">>, quote |-> <<"\"">>, spaced |-> FALSE]>>]

TagPalette == {FormLoginTag,
               UpperFormLoginTag,
               PasswordInputTag,
               BarePasswordInputTag,
               TextInputTag,
               SearchFormTag,
               ParagraphTag,
               SpacedPasswordInputTag,
               DataTypeInputTag}

Bodies == UNION {[1..n -> TagPalette] : n \in 0..MaxTags}

DetectorArgs == {[for |-> "detector", value |-> b] : b \in Bodies}

\* _looks_like_login_form on the text of a body
CallLooksLikeLoginForm ==
    /\ fnName = "none"
    /\ fnArg.for = "detector"
    /\ fnName' = "detector"
    /\ fnRet' = LoginFormReSearch(RenderBody(fnArg.value))
    /\ UNCHANGED <<fnArg, sessionVars, coordVars, parserVars, hostVars>>

DetectorInit ==
    /\ SessionInit
    /\ CoordInit
    /\ pdoc = <<>>
    /\ ParserIdle
    /\ fnArg \in DetectorArgs
    /\ FnIdle
    /\ HostInit

DetectorSpec == DetectorInit /\ [][CallLooksLikeLoginForm]_vars

--------------------------------------------------------------------------
(* Properties of the login-form detector *)

HasPrefixCI(s, w) == StartsAtCI(s, 1, w)
HasSuffixCI(s, w) == StartsAtCI(s, Len(s) - Len(w) + 1, w)
EqualCI(s, w) == Len(s) = Len(w) /\ StartsAtCI(s, 1, w)

\* a form tag whose action is login.php, or an input tag of type password
IsLoginMarker(t) ==
    \/ /\ EqualCI(t.name, <<"f", "o", "r", "m">>)
       /\ \E i \in 1..Len(t.attrs) :
             EqualCI(t.attrs[i].name, <<"a", "c", "t", "i", "o", "n">>) /\ EqualCI(t.attrs[i].value, S_loginPhp)
    \/ /\ EqualCI(t.name, <<"i", "n", "p", "u", "t">>)
       /\ \E i \in 1..Len(t.attrs) :
             EqualCI(t.attrs[i].name, <<"t", "y", "p", "e">>) /\ EqualCI(t.attrs[i].value, S_password)

\* a tag that begins with <form and carries the text action=login.php, or
\* begins with <input and carries the text type=password: the attribute is
\* written without blanks around the equals sign, its name ends with action
\* (type) and its value begins with login.php (password)
IsWrittenMarker(t) ==
    \/ /\ HasPrefixCI(t.name, <<"f", "o", "r", "m">>)
       /\ \E i \in 1..Len(t.attrs) :
             /\ ~t.attrs[i].spaced
             /\ HasSuffixCI(t.attrs[i].name, <<"a", "c", "t", "i", "o", "n">>)
             /\ HasPrefixCI(t.attrs[i].value, S_loginPhp)
    \/ /\ HasPrefixCI(t.name, <<"i", "n", "p", "u", "t">>)
       /\ \E i \in 1..Len(t.attrs) :
             /\ ~t.attrs[i].spaced
             /\ HasSuffixCI(t.attrs[i].name, <<"t", "y", "p", "e">>)
             /\ HasPrefixCI(t.attrs[i].value, S_password)

--------------------------------------------------------------------------
(* __init__.py: async_setup_entry and async_unload_entry, one action per
   await, run against a client whose login and first refresh may succeed *)

loginVars == <<setups, pc, force, attempt, status, html, outcome, reqLog,
               pauses, steps, loginStatus, answered, accepted, allForms,
               primaryLast, authed, jar, jarUsers, refreshes>>

\* how the login call of a setup can end
LoginOutcomes == {"return", "InvalidAuth", "CannotConnect", "ClientError"}

\* lines 38-46: the client is constructed and the login call awaited
EntrySetupStart(c) ==
    /\ SetupPossible(c)
    /\ entry' = [entry EXCEPT ![c] = "setup_in_progress"]
    /\ session' = [session EXCEPT ![c] = AsyncGetClientsession(c)]
    /\ username' = [username EXCEPT ![c] = c]
    /\ unloadResult' = [unloadResult EXCEPT ![c] = "none"]
    /\ UNCHANGED <<registry, platformsUp, closeCalls>>
    /\ UNCHANGED <<loginVars, coordVars, parserVars, fnVars, platformVars, calVars, flowVars>>

\* lines 44-60: the login call ends; a page is stored, the coordinator is
\* built and its first refresh awaited
EntryLoginEnds(c, how) ==
    /\ entry[c] = "setup_in_progress"
    /\ entry' = [entry EXCEPT ![c] = SetupResult(how)]
    /\ UNCHANGED <<username, session, unloadVars>>
    /\ UNCHANGED <<loginVars, coordVars, parserVars, fnVars, platformVars, calVars, flowVars>>

\* lines 60-67: the first refresh ends; when it succeeded the client and the
\* coordinator are registered and the platform setup is awaited
EntryFirstRefresh(c, ok) ==
    /\ entry[c] = "first_refresh"
    /\ entry' = [entry EXCEPT ![c] =
                    IF ok THEN "forward_setups" ELSE "ConfigEntryNotReady"]
    /\ registry' = IF ok THEN registry \cup {c} ELSE registry
    /\ UNCHANGED <<username, session, platformsUp, unloadResult, closeCalls>>
    /\ UNCHANGED <<loginVars, coordVars, parserVars, fnVars, platformVars, calVars, flowVars>>

\* lines 67-72: the platforms are set up, the setup returns True
EntryForwardSetups(c) ==
    /\ entry[c] = "forward_setups"
    /\ entry' = [entry EXCEPT ![c] = "loaded"]
    /\ platformsUp' = [platformsUp EXCEPT ![c] = TRUE]
    /\ UNCHANGED <<username, session, registry, unloadResult, closeCalls>>
    /\ UNCHANGED <<loginVars, coordVars, parserVars, fnVars, platformVars, calVars, flowVars>>

\* lines 76-79: the stored client is read and the platform unload awaited
UnloadPlatforms(c, unloaded) ==
    /\ entry[c] = "loaded"
    /\ entry' = [entry EXCEPT ![c] = "unload_in_progress"]
    /\ platformsUp' = [platformsUp EXCEPT ![c] = ~unloaded]
    /\ UNCHANGED <<username, session, registry, unloadResult, closeCalls>>
    /\ UNCHANGED <<loginVars, coordVars, parserVars, fnVars, platformVars, calVars, flowVars>>

\* lines 80-85: the entry is popped from the registry; client.async_close is
\* looked up on a class that does not define it: AttributeError leaves the
\* handler, no session is closed.
UnloadFinish(c) ==
    /\ entry[c] = "unload_in_progress"
    /\ registry' = registry \ {c}
    /\ IF c \in registry /\ ~HasAttr("async_close")
       THEN /\ unloadResult' = [unloadResult EXCEPT ![c] = "AttributeError"]
            /\ entry' = [entry EXCEPT ![c] = "FAILED_UNLOAD"]
            /\ UNCHANGED closeCalls
       ELSE /\ unloadResult' = [unloadResult EXCEPT ![c] =
                                   IF platformsUp[c] THEN "False" ELSE "True"]
            /\ entry' = [entry EXCEPT ![c] =
                            IF platformsUp[c] THEN "FAILED_UNLOAD" ELSE "not_loaded"]
            /\ closeCalls' = IF c \in registry
                             THEN [closeCalls EXCEPT ![session[c]] = @ + 1]
                             ELSE closeCalls
    /\ UNCHANGED <<username, session, platformsUp>>
    /\ UNCHANGED <<loginVars, coordVars, parserVars, fnVars, platformVars, calVars, flowVars>>

UnloadNext ==
    \/ \E c \in Accounts : EntrySetupStart(c)
    \/ \E c \in Accounts, how \in LoginOutcomes : EntryLoginEnds(c, how)
    \/ \E c \in Accounts, ok \in BOOLEAN : EntryFirstRefresh(c, ok)
    \/ \E c \in Accounts : EntryForwardSetups(c)
    \/ \E c \in Accounts, unloaded \in BOOLEAN : UnloadPlatforms(c, unloaded)
    \/ \E c \in Accounts : UnloadFinish(c)

UnloadSpec == Init /\ [][UnloadNext]_vars

--------------------------------------------------------------------------
(* Properties of the unload *)

\* C21: an unload that has ended returned without an exception, left the
\* entry out of the registry and closed the session of its client exactly
\* once; the session of an account that is still loaded was not closed.
C21_UnloadClosesOwnSession ==
    \A c \in Accounts :
        /\ unloadResult[c] # "none" =>
              /\ unloadResult[c] \in {"True", "False"}
              /\ c \notin registry
              /\ closeCalls[session[c]] = 1
        /\ entry[c] = "loaded" => closeCalls[session[c]] = 0

--------------------------------------------------------------------------
(* Properties of the eager first refresh *)

LastRefresh(c) == refreshes[c][Len(refreshes[c])]

\* C22: a setup whose login returned the account's data page, and whose
\* session the portal has not dropped since, does not end at its first
\* refresh: the refresh returns a snapshot and the entry gets loaded; and an
\* entry is loaded only after a first refresh that returned a snapshot.
C22_EagerRefreshLoads ==
    \A c \in Accounts :
        /\ (authed[c] /\ entry[c] = "ConfigEntryNotReady")
              => LastRefresh(c).expired
        /\ (authed[c] /\ entry[c] \notin {"first_refresh", "setup_in_progress"}
                /\ ~LastRefresh(c).expired)
              => (entry[c] = "loaded" /\ LastRefresh(c).result = "Snapshot")
        /\ entry[c] = "loaded"
              => (authed[c] /\ LastRefresh(c).result = "Snapshot")

--------------------------------------------------------------------------
(* Calls of _find_subject_for_table: tables with up to MaxSiblings other
   nodes between the table and the nearest heading before it, and up to
   MaxAncestors ancestors without a heading below the nearest one with one *)

MaxSiblings == 7
MaxAncestors == 5

TextNode == [name |-> "text", text |-> <<"NL", " ">>]
Paragraph == [name |-> "p", text |-> <<"N", "o", "t", "e", "n">>]
EmptyHeading == [name |-> "h2", text |-> <<" ", "NL">>]
HeadingChemie == [name |-> "h3", text |-> <<"C", "h", "e", "m", "i", "e">>]
HeadingSport == [name |-> "strong", text |-> <<"S", "p", "o", "r", "t">>]

\* n nodes that are no heading
Fillers(n) == [i \in 1..n |-> IF i % 2 = 1 THEN TextNode ELSE Paragraph]

\* the siblings before the table, nearest first
SiblingRuns ==
    {Fillers(n) \o tl :
        n \in 0..MaxSiblings,
        tl \in {<<>>, <<HeadingChemie>>, <<EmptyHeading, HeadingSport>>,
                <<HeadingSport, HeadingChemie>>}}

NoHeadingInside == [heading |-> <<>>]
\* the ancestors of the table, nearest first, each with the texts of the
\* heading elements inside it in document order
AncestorRuns ==
    {[i \in 1..n |-> NoHeadingInside] \o tl :
        n \in 0..MaxAncestors,
        tl \in {<<>>,
                <<[heading |-> <<<<"E", "r", "d", "k", "u", "n", "d", "e">>>>]>>,
                <<[heading |-> <<<<" ">>, <<"L", "a", "t", "e", "i", "n">>>>],
                  [heading |-> <<<<"M", "u", "s", "i", "k">>>>]>>}}

SubjectTables ==
    {[trs |-> GradeNoHeading.trs, before |-> b, ancestors |-> a] :
        b \in SiblingRuns, a \in AncestorRuns}

\* parse: subject = _find_subject_for_table(table) or "unbekannt"
SubjectLabel(table) == OrElse(FindSubjectForTable(table), S_unbekannt)

CallFindSubject ==
    /\ fnName = "none"
    /\ fnArg.for = "_find_subject_for_table"
    /\ fnName' = "_find_subject_for_table"
    /\ fnRet' = SubjectLabel(fnArg.value)
    /\ UNCHANGED <<fnArg, sessionVars, coordVars, parserVars, hostVars>>

FindSubjectInit ==
    /\ SessionInit
    /\ CoordInit
    /\ pdoc = <<>>
    /\ ParserIdle
    /\ fnArg \in {[for |-> "_find_subject_for_table", value |-> t] :
                     t \in SubjectTables}
    /\ FnIdle
    /\ HostInit

FindSubjectSpec == FindSubjectInit /\ [][CallFindSubject]_vars

--------------------------------------------------------------------------
(* Properties of _find_subject_for_table *)

Least(S) == CHOOSE x \in S : \A y \in S : x <= y
FirstN(q, n) == 1..(IF Len(q) < n THEN Len(q) ELSE n)

\* the headings with a text among the six nearest siblings before a table
SiblingHeadings(t) ==
    {i \in FirstN(t.before, 6) :
        t.before[i].name \in {"h1", "h2", "h3", "strong"}
        /\ Norm(t.before[i].text) # <<>>}
\* those of the four nearest ancestors in which the heading found has a text
AncestorHeadings(t) ==
    {j \in FirstN(t.ancestors, 4) :
        t.ancestors[j].heading # <<>> /\ Norm(t.ancestors[j].heading[1]) # <<>>}

LabelAsClaimed(t) ==
    IF SiblingHeadings(t) # {}
    THEN Norm(t.before[Least(SiblingHeadings(t))].text)
    ELSE IF AncestorHeadings(t) # {}
    THEN Norm(t.ancestors[Least(AncestorHeadings(t))].heading[1])
    ELSE S_unbekannt

\* C23: the subject label of a table is the text of the nearest heading with
\* a text among its six nearest preceding siblings; without one, the text of
\* the heading found in the nearest of its four nearest ancestors where that
\* heading has a text; without one, "unbekannt".
C23_SiblingHeadingFirst ==
    fnName = "_find_subject_for_table" => fnRet = LabelAsClaimed(fnArg.value)

\* the heading was the sixth sibling before the table, and an ancestor held
\* another heading
C23_Witness ==
    /\ fnName = "_find_subject_for_table"
    /\ fnArg.value.before = Fillers(5) \o <<HeadingChemie>>
    /\ fnArg.value.ancestors = <<[heading |-> <<<<"E", "r", "d", "k", "u", "n", "d", "e">>>>]>>
    /\ fnRet = <<"C", "h", "e", "m", "i", "e">>

--------------------------------------------------------------------------
(* Properties of the records *)

\* the last column whose normalized header text is k
ColumnOf(header, k) ==
    CHOOSE i \in 1..Len(header) :
        /\ Norm(header[i]) = k
        /\ \A j \in (i + 1)..Len(header) : Norm(header[j]) # k

\* one field per distinct header text; the cell of that column, or the empty
\* string where the row has none
RecordAsClaimed(header, row) ==
    [k \in {Norm(header[i]) : i \in 1..Len(header)} |->
        IF ColumnOf(header, k) <= Len(row)
        THEN Norm(row[ColumnOf(header, k)]) ELSE <<>>]

\* the rows of a table that have cells
CellRows(t) == SelectSeq(t.trs, HasCells)

\* the records of the data rows of the tables of one kind (for grade tables,
\* of one key), table after table and row after row
RECURSIVE RecordsAsClaimed(_, _, _)
RecordsAsClaimed(tables, kind, key) ==
    IF tables = <<>> THEN <<>>
    ELSE LET t == Head(tables)
         IN (IF KindOf(t) = kind /\ (kind = "grades" => ResolvedKey(t) = key)
             THEN [i \in 1..(Len(CellRows(t)) - 1) |->
                      RecordAsClaimed(CellRows(t)[1], CellRows(t)[i + 1])]
             ELSE <<>>)
            \o RecordsAsClaimed(Tail(tables), kind, key)

\* C24: every record of the snapshot has exactly the distinct normalized
\* header texts of its table as its fields, each holding the normalized cell
\* of that column or the empty string when the row is too short; cells beyond
\* the header are dropped; the records are in table and row order.
C24_RecordsFollowHeader ==
    ParseReturned =>
        LET ts == AllTables(CalledDoc)
            s == snapshot[1]
        IN /\ s.homework = RecordsAsClaimed(ts, "homework", <<>>)
           /\ s.remarks = RecordsAsClaimed(ts, "remarks", <<>>)
           /\ \A k \in DOMAIN s.grades :
                 s.grades[k] = RecordsAsClaimed(ts, "grades", k)

\* a homework row of four cells under a header of three and a row of two
\* were parsed, and a remark row of one cell under a header of five
C24_Witness ==
    /\ ParseReturned
    /\ CalledDoc.tables = <<HomeworkUnevenRows, RemarkRepeatedHeader>>
    /\ Len(snapshot[1].homework) = 2
    /\ DOMAIN snapshot[1].homework[1] = {<<"D", "a", "t", "u", "m">>, <<"F", "a", "c", "h">>, <<"H", "a", "u", "s", "a", "u", "f", "g", "a", "b", "e", "n">>}
    /\ snapshot[1].homework[1][<<"H", "a", "u", "s", "a", "u", "f", "g", "a", "b", "e", "n">>] = <<"S", ".", " ", "7">>
    /\ snapshot[1].homework[2][<<"H", "a", "u", "s", "a", "u", "f", "g", "a", "b", "e", "n">>] = <<>>
    /\ Len(snapshot[1].remarks) = 2
    /\ snapshot[1].remarks[1][<<"T", "y", "p">>] = <<"T", "a", "d", "e", "l">>
    /\ snapshot[1].remarks[2][<<"B", "e", "m", "e", "r", "k", "u", "n", "g">>] = <<>>

--------------------------------------------------------------------------
(* Properties of the reading of record fields *)

\* the normalized values a record holds under a key that reads zensur in
\* any letter case
MarksInAnyCase(e) == {Norm(e[k]) : k \in {x \in DOMAIN e : Lower(x) = S_zensur}}

\* the positions of the records with a mark 1..6 under such a key
ValidMarksInAnyCase(es) ==
    {i \in 1..Len(es) :
        \E d \in 1..6 : <<DigitSeq[d + 1]>> \in MarksInAnyCase(es[i])}

\* C25: the average computation finds the mark of a record under whatever
\* letter case its header used: every record with a mark 1..6 under a key
\* that reads zensur is counted in valid_count.
C25_MarkFoundInAnyCase ==
    fnName = "sensor" =>
        fnRet.attributes.valid_count = Cardinality(ValidMarksInAnyCase(fnArg.value))

--------------------------------------------------------------------------
(* Properties of the grades of one subject key *)

DataRows(t) == Len(CellRows(t)) - 1

\* the number of data rows of the grade tables before position i that
\* resolve to key k
RECURSIVE RowsBefore(_, _, _)
RowsBefore(ts, i, k) ==
    IF i <= 1 THEN 0
    ELSE RowsBefore(ts, i - 1, k)
         + (IF KindOf(ts[i - 1]) = "grades" /\ ResolvedKey(ts[i - 1]) = k
            THEN DataRows(ts[i - 1]) ELSE 0)

\* C26: the records of every grade table stand under its subject key, after
\* the records of the earlier grade tables of that key and in row order, and
\* the key holds no other record: nothing is lost, overwritten or cleared.
C26_SameKeyConcatenated ==
    ParseReturned =>
        LET ts == AllTables(CalledDoc)
            grades == snapshot[1].grades
        IN /\ \A i \in GradeTables(CalledDoc) :
                LET k == ResolvedKey(ts[i])
                IN /\ k \in DOMAIN grades
                   /\ \A r \in 1..DataRows(ts[i]) :
                         /\ RowsBefore(ts, i, k) + r <= Len(grades[k])
                         /\ grades[k][RowsBefore(ts, i, k) + r]
                               = RecordAsClaimed(CellRows(ts[i])[1],
                                                 CellRows(ts[i])[r + 1])
           /\ \A k \in DOMAIN grades :
                Len(grades[k]) = RowsBefore(ts, Len(ts) + 1, k)

\* two tables whose headings differ but give the same key were parsed with
\* another subject between them, whose second table has a header row only
C26_Witness ==
    /\ ParseReturned
    /\ CalledDoc.tables = <<GradeAndHomework, GradeMathematik, GradeXylit, GradeHeaderOnly>>
    /\ ResolvedKey(GradeAndHomework) = ResolvedKey(GradeXylit)
    /\ FindSubjectForTable(GradeAndHomework) # FindSubjectForTable(GradeXylit)
    /\ Len(snapshot[1].grades[ResolvedKey(GradeXylit)]) = 3
    /\ snapshot[1].grades[ResolvedKey(GradeXylit)][3][<<"Z", "e", "n", "s", "u", "r">>] = <<"2">>
    /\ Len(snapshot[1].grades[ResolvedKey(GradeMathematik)]) = 1

--------------------------------------------------------------------------
(* sensor.py: async_setup_entry and the listener _maybe_add_new_subjects,
   on a coordinator whose refreshes store the snapshots of parse *)

\* the pages the coordinator's refreshes are answered with
ListenerDocs ==
    {[pupilinfo |-> <<>>, texts |-> <<>>, tables |-> ts] :
        ts \in {<<>>, <<GradeBiologie>>, <<GradeMathematik>>,
                <<GradeBiologie, GradeHeaderOnly>>, <<GradeXylit, GradeNoHeading>>}}

coordRest == <<lastJson, entryFolder, fetched, updResult, parsedHtml,
               prevData, prevJson, hostSeen>>

\* (coordinator.data or {}).get("grades") or {}: the keys
GradeKeys(d) == IF d = <<>> THEN {} ELSE DOMAIN d[1].grades

\* async_add_entities is given one HIPSubjectGradesSensor for each key of ks
AddSensors(had, ks) ==
    [k \in DOMAIN had \cup ks |->
        (IF k \in DOMAIN had THEN had[k] ELSE 0) + (IF k \in ks THEN 1 ELSE 0)]

\* a listener that does not take the created keys out
NewSubjects_All(current, cr) == current

\* new_subjects = sorted(set(current_grades.keys()) - created)
NewSubjects(current, cr) == current \ cr

\* a refresh stores the snapshot of a page (or fails and leaves the data);
\* the coordinator then calls its listeners
CoordinatorRefresh(ok, doc) ==
    /\ notified
    /\ data' = IF ok THEN Parse(EmptyAcc, doc).snapshot ELSE data
    /\ notified' = ~listening
    /\ everSeen' = IF listening THEN everSeen \cup GradeKeys(data') ELSE everSeen
    /\ reappeared' = (reappeared \/ (GradeKeys(data') \cap created) \ GradeKeys(data) # {})
    /\ UNCHANGED <<listening, created, sensors>>
    /\ UNCHANGED <<coordRest, unloadVars, calVars, flowVars, sessionVars, parserVars,
                   fnVars>>

\* lines 17-45: one sensor per key of the current data, the listener registered
SensorSetupEntry ==
    /\ ~listening
    /\ data # <<>>
    /\ listening' = TRUE
    /\ sensors' = AddSensors(sensors, GradeKeys(data))
    /\ created' = created \cup GradeKeys(data)
    /\ everSeen' = GradeKeys(data)
    /\ UNCHANGED <<notified, reappeared>>
    /\ UNCHANGED <<coordVars, unloadVars, calVars, flowVars, sessionVars, parserVars,
                   fnVars>>

\* lines 36-43: the listener
MaybeAddNewSubjects ==
    /\ listening
    /\ ~notified
    /\ notified' = TRUE
    /\ LET new_subjects == NewSubjects(GradeKeys(data), created)
       IN IF new_subjects = {}
          THEN UNCHANGED <<sensors, created>>
          ELSE /\ sensors' = AddSensors(sensors, new_subjects)
               /\ created' = created \cup new_subjects
    /\ UNCHANGED <<listening, everSeen, reappeared>>
    /\ UNCHANGED <<coordVars, unloadVars, calVars, flowVars, sessionVars, parserVars,
                   fnVars>>

ListenerNext ==
    \/ \E ok \in BOOLEAN, doc \in ListenerDocs : CoordinatorRefresh(ok, doc)
    \/ SensorSetupEntry
    \/ MaybeAddNewSubjects

ListenerSpec == Init /\ [][ListenerNext]_vars

--------------------------------------------------------------------------
(* Properties of the grade sensors *)

\* once the listener has run, the keys with a sensor are the keys of all
\* the snapshots shown so far, the current one included, one sensor each
OneSensorPerSeenKey ==
    /\ \A k \in DOMAIN sensors : sensors[k] = 1
    /\ (listening /\ notified) =>
          /\ DOMAIN sensors = everSeen
          /\ created = everSeen
          /\ GradeKeys(data) \subseteq DOMAIN sensors

\* C27: at every time each subject key has at most one grade sensor; after
\* the listener has run the keys with a sensor are exactly the keys seen in a
\* snapshot so far; and the set of created keys never loses a key.
C27_OneSensorPerKey ==
    [](OneSensorPerSeenKey) /\ [][created \subseteq created']_vars

\* a key that had a sensor was missing from a snapshot and is back in the
\* current one, next to a key that came later
C27_Witness ==
    /\ listening /\ notified
    /\ reappeared
    /\ Cardinality(everSeen) = 4
    /\ Cardinality(GradeKeys(data)) = 2

--------------------------------------------------------------------------
(* calendar.py: dates in the text of a record. A date is <<year, month, day>>. *)

\* int(s) of a string of digits
RECURSIVE ToInt(_)
ToInt(s) ==
    IF s = <<>> THEN 0
    ELSE 10 * ToInt(SubSeq(s, 1, Len(s) - 1)) + DigitValue(s[Len(s)])

\* \d{1,2}\. at i: the position of the dot, 0 if it does not match
DigitsDotEnd(s, i) ==
    LET e == RunEnd(s, i, DigitChars)
    IN IF e >= i /\ e - i < 2 /\ e < Len(s) /\ s[e + 1] = "." THEN e + 1 ELSE 0

\* _DMY_RE at i: \b, day, dot, month, dot, four digits, \b; the position of
\* the last digit and the three groups, or <<>>
DmyMatch(s, i) ==
    IF ~(s[i] \in DigitChars /\ (i = 1 \/ s[i - 1] \notin WordChars)) THEN <<>>
    ELSE LET a == DigitsDotEnd(s, i)
             b == IF a = 0 THEN 0 ELSE DigitsDotEnd(s, a + 1)
         IN IF b = 0 THEN <<>>
            ELSE IF RunEnd(s, b + 1, DigitChars) >= b + 4 /\ AtWordEnd(s, b + 4)
            THEN <<[end |-> b + 4,
                    d |-> SubSeq(s, i, a - 1),
                    m |-> SubSeq(s, a + 1, b - 1),
                    y |-> SubSeq(s, b + 1, b + 4)]>>
            ELSE <<>>

\* _DMY_RE.findall(s) from position i on
RECURSIVE DmyFindAll(_, _)
DmyFindAll(s, i) ==
    IF i > Len(s) THEN <<>>
    ELSE LET mt == DmyMatch(s, i)
         IN IF mt = <<>> THEN DmyFindAll(s, i + 1)
            ELSE <<mt[1]>> \o DmyFindAll(s, mt[1].end + 1)

IsLeap(y) == y % 4 = 0 /\ (y % 100 # 0 \/ y % 400 = 0)
DaysInMonth(y, m) ==
    IF m = 2 THEN (IF IsLeap(y) THEN 29 ELSE 28)
    ELSE IF m \in {4, 6, 9, 11} THEN 30 ELSE 31
\* date(y, m, d) does not raise
IsDate(y, m, d) ==
    /\ y >= 1 /\ y <= 9999
    /\ m >= 1 /\ m <= 12
    /\ d >= 1 /\ d <= DaysInMonth(y, m)

\* the loop of _extract_dates_de: the groups that make a date, as dates
GroupsToDates(ms) ==
    LET ok(g) == IsDate(ToInt(g.y), ToInt(g.m), ToInt(g.d))
        good == SelectSeq(ms, ok)
    IN [i \in 1..Len(good) |-> <<ToInt(good[i].y), ToInt(good[i].m), ToInt(good[i].d)>>]

\* _extract_dates_de
ExtractDatesDe(s) == GroupsToDates(DmyFindAll(Strip(s), 1))

\* a <= b on dates
DateLE(a, b) ==
    \/ a[1] < b[1]
    \/ a[1] = b[1] /\ a[2] < b[2]
    \/ a[1] = b[1] /\ a[2] = b[2] /\ a[3] <= b[3]
MinDate(ds) == ds[CHOOSE i \in 1..Len(ds) : \A j \in 1..Len(ds) : DateLE(ds[i], ds[j])]
MaxDate(ds) == ds[CHOOSE i \in 1..Len(ds) : \A j \in 1..Len(ds) : DateLE(ds[j], ds[i])]

\* _parse_due_date_from_text: (assigned, due), each <<>> for None
ParseDueDateFromText(s) ==
    LET ds == ExtractDatesDe(s)
    IN IF ds = <<>> THEN [assigned |-> <<>>, due |-> <<>>]
       ELSE IF Len(ds) = 1 THEN [assigned |-> <<ds[1]>>, due |-> <<>>]
       ELSE [assigned |-> <<MinDate(ds)>>, due |-> <<MaxDate(ds)>>]

\* d + timedelta(days=1)
\* date.max
DateMax == <<9999, 12, 31>>

\* d + timedelta(days=1) raises OverflowError
AddDayRaises(d) == d = DateMax

NextDay(d) ==
    IF d[3] < DaysInMonth(d[1], d[2]) THEN <<d[1], d[2], d[3] + 1>>
    ELSE IF d[2] < 12 THEN <<d[1], d[2] + 1, 1>>
    ELSE <<d[1] + 1, 1, 1>>

--------------------------------------------------------------------------
(* calendar.py: the events of the homework and the remark records. An
   optional date is <<>> or <<date>>; the entry options are the subject_map
   (pairs of key and name, in insertion order) and the lessons calendar. *)

S_Datum == <<"D", "a", "t", "u", "m">>
S_Fach == <<"F", "a", "c", "h">>
S_Hausaufgaben == <<"H", "a", "u", "s", "a", "u", "f", "g", "a", "b", "e", "n">>
S_Typ == <<"T", "y", "p">>
S_Stunde == <<"S", "t", "u", "n", "d", "e">>
S_Bemerkung == <<"B", "e", "m", "e", "r", "k", "u", "n", "g">>

\* (item.get("Datum") or item.get("datum") or "").strip()
ItemField(item, cap, low) == Strip(FirstOf(item, <<cap, low>>))

\* rev = {v: k for k, v in subject_map.items()}; rev.get(fach)
RevGet(subject_map, fach) ==
    LET hits == {i \in 1..Len(subject_map) : subject_map[i][2] = fach}
    IN IF hits = {} THEN <<>>
       ELSE subject_map[CHOOSE i \in hits : \A j \in hits : j <= i][1]

\* subject_map.get(key, key.upper())
FriendlyName(subject_map, key) ==
    LET hits == {i \in 1..Len(subject_map) : subject_map[i][1] = key}
    IN IF hits = {} THEN UpperCase(key)
       ELSE subject_map[CHOOSE i \in hits : \A j \in hits : j <= i][2]

\* lines 169-174: the subject key of a homework record, <<>> if none
ReconstructSubjectKey(fach, opts, grades) ==
    LET k == RevGet(opts.subject_map, fach)
    IN IF k # <<>> THEN k
       ELSE IF Lower(fach) \in DOMAIN grades THEN Lower(fach) ELSE <<>>

\* the patterns re.escape(friendly) and \bkey\b, searched without case in
\* the normalized title
TitleMatches(title, friendly, key) ==
    LET t == Norm(title)
    IN \E i \in 1..Len(t) :
          \/ friendly # <<>> /\ StartsAtCI(t, i, friendly)
          \/ /\ StartsAtCI(t, i, key)
             /\ (i = 1 \/ t[i - 1] \notin WordChars)
             /\ AtWordEnd(t, i + Len(key) - 1)

\* _next_occurrence_matching: lessons is what the lessons calendar answered,
\* <<>> for an exception, else <<its events>>
NextOccurrenceMatching(lessons, after_date, friendly, key) ==
    IF lessons = <<>> THEN <<>>
    ELSE LET ok(ev) == TitleMatches(ev.summary, friendly, key)
                       /\ DateLE(after_date, ev.start)
             cands == SelectSeq(lessons[1], ok)
         IN IF cands = <<>> THEN <<>>
            ELSE <<MinDate([i \in 1..Len(cands) |-> cands[i].start])>>

\* line 167: the record needs the lessons calendar
NeedsLookup(item, opts, grades) ==
    LET pd == ParseDueDateFromText(ItemField(item, S_Datum, S_datum))
    IN /\ pd.due = <<>>
       /\ Strip(opts.lessons_cal) # <<>>
       /\ pd.assigned # <<>>
       /\ ReconstructSubjectKey(ItemField(item, S_Fach, S_fach), opts, grades) # <<>>

\* lines 175-181: the due date the lessons calendar gives
LookupDue(item, opts, grades, lessons) ==
    LET pd == ParseDueDateFromText(ItemField(item, S_Datum, S_datum))
        key == ReconstructSubjectKey(ItemField(item, S_Fach, S_fach), opts, grades)
    IN NextOccurrenceMatching(lessons, pd.assigned[1],
                              FriendlyName(opts.subject_map, key), key)

\* lines 187-190: the event of a record with the due date
HomeworkEvent(item, due) ==
    LET fach == ItemField(item, S_Fach, S_fach)
        text == ItemField(item, S_Hausaufgaben, S_hausaufgaben)
    IN [summary |-> RStrip(LStrip(fach \o <<":", " ">> \o text, {":", " "}), {":", " "}),
        start |-> due,
        end |-> NextDay(due),
        description |-> text]

\* the loop of HIPHomeworkCalendar._async_build_all_events from record i on,
\* up to the next await: done with the events, or waiting for the lessons
\* calendar at a record
\* events.append(...) when a due date was found, else continue
WithDue(events, item, due) ==
    IF due = <<>> THEN events
    ELSE Append(events, HomeworkEvent(item, due[1]))

RECURSIVE BuildFrom(_, _, _, _, _)
RECURSIVE AfterDue(_, _, _, _, _, _)
BuildFrom(hw, i, events, opts, grades) ==
    IF i > Len(hw) THEN [pc |-> "done", idx |-> i, events |-> events]
    ELSE IF NeedsLookup(hw[i], opts, grades)
    THEN [pc |-> "lookup", idx |-> i, events |-> events]
    ELSE AfterDue(hw, i, events, opts, grades,
                  ParseDueDateFromText(ItemField(hw[i], S_Datum, S_datum)).due)

\* lines 183-190 for record i, and the rest of the loop; the addition of
\* line 188 raises at date.max and ends the build
AfterDue(hw, i, events, opts, grades, due) ==
    IF due # <<>> /\ AddDayRaises(due[1])
    THEN [pc |-> "OverflowError", idx |-> i, events |-> events]
    ELSE BuildFrom(hw, i + 1, WithDue(events, hw[i], due), opts, grades)

\* the loop after the lessons calendar has answered for record i
ResumeFrom(hw, i, events, opts, grades, lessons) ==
    AfterDue(hw, i, events, opts, grades,
             LookupDue(hw[i], opts, grades, lessons))

\* the whole of it, the lessons calendar giving the same answer each time:
\* pc is "done" with the events, or the exception raised
RECURSIVE RunBuild(_, _, _, _, _)
RunBuild(st, hw, opts, grades, lessons) ==
    IF st.pc # "lookup" THEN st
    ELSE RunBuild(ResumeFrom(hw, st.idx, st.events, opts, grades, lessons),
                  hw, opts, grades, lessons)
HomeworkBuildAllEvents(snap, opts, lessons) ==
    RunBuild(BuildFrom(snap.homework, 1, <<>>, opts, snap.grades),
             snap.homework, opts, snap.grades, lessons)

\* HIPRemarksCalendar._async_build_all_events, one record
RemarkEvents(item) ==
    LET dates == ExtractDatesDe(ItemField(item, S_Datum, S_datum))
        typ == ItemField(item, S_Typ, S_typ)
        stunde == ItemField(item, S_Stunde, S_stunde)
        bem == ItemField(item, S_Bemerkung, S_bemerkung)
        suffix == IF stunde # <<>>
                  THEN <<" ", "(", "S", "t", "u", "n", "d", "e", " ">> \o stunde \o <<")">> ELSE <<>>
    IN IF dates = <<>> THEN <<>>
       ELSE <<[summary |-> Strip(typ \o suffix),
               start |-> dates[1],
               end |-> NextDay(dates[1]),
               description |-> OrElse(bem, S_Bemerkung)]>>

\* line 227 raises at date.max
RemarkRaises(item) ==
    /\ ExtractDatesDe(ItemField(item, S_Datum, S_datum)) # <<>>
    /\ AddDayRaises(ExtractDatesDe(ItemField(item, S_Datum, S_datum))[1])

\* HIPRemarksCalendar._async_build_all_events from record i on
RECURSIVE RemarksFrom(_, _, _)
RemarksFrom(rm, i, events) ==
    IF i > Len(rm) THEN [pc |-> "done", idx |-> i, events |-> events]
    ELSE IF RemarkRaises(rm[i])
    THEN [pc |-> "OverflowError", idx |-> i, events |-> events]
    ELSE RemarksFrom(rm, i + 1, events \o RemarkEvents(rm[i]))
RemarksBuildAllEvents(rm) == RemarksFrom(rm, 1, <<>>)

--------------------------------------------------------------------------
(* calendar.py: _handle_coordinator_update and _async_recompute_event of the
   homework calendar. A task runs from one await to the next in one step;
   its only await that can suspend is the one for the lessons calendar. *)

MaxTasks == 2

\* today, and what the lessons calendar holds
Today == <<2025, 9, 1>>
LessonEvents == <<
    [start |-> <<2025, 9, 2>>, summary |-> <<"D", "e", "u", "t", "s", "c", "h">>],
    [start |-> <<2025, 9, 4>>, summary |-> <<"M", "A", " ", "7", "b">>],
    [start |-> <<2025, 9, 9>>, summary |-> <<"M", "a">>] >>
\* what the await of line 58 ends with: an exception (<<>>) or the events
LessonAnswers == {<<>>, <<LessonEvents>>}
\* the options of the entry
CalOptions == [subject_map |-> <<>>, lessons_cal |-> <<"c", "a", "l", "e", "n", "d", "a", "r", ".", "s", "t", "u", "n", "d", "e", "n", "p", "l", "a", "n">>]

HwSingleDate ==
    [trs |-> <<<<<<"D", "a", "t", "u", "m">>, <<"F", "a", "c", "h">>, <<"H", "a", "u", "s", "a", "u", "f", "g", "a", "b", "e", "n">>>>,
              <<<<"3", ".", "9", ".", "2", "0", "2", "5">>, <<"M", "a">>, <<"N", "r", ".", " ", "3">>>>>>,
     before |-> <<>>, ancestors |-> <<>>]
HwDateRange ==
    [trs |-> <<<<<<"D", "a", "t", "u", "m">>, <<"F", "a", "c", "h">>, <<"H", "a", "u", "s", "a", "u", "f", "g", "a", "b", "e", "n">>>>,
              <<<<"1", ".", "9", ".", "2", "0", "2", "5", " ", "-", " ", "8", ".", "9", ".", "2", "0", "2", "5">>, <<"M", "a">>, <<"S", ".", " ", "7">>>>>>,
     before |-> <<>>, ancestors |-> <<>>]
HwTwoRows ==
    [trs |-> <<<<<<"D", "a", "t", "u", "m">>, <<"F", "a", "c", "h">>, <<"H", "a", "u", "s", "a", "u", "f", "g", "a", "b", "e", "n">>>>,
              <<<<"2", ".", "9", ".", "2", "0", "2", "5">>, <<"D", "e">>, <<"A", "u", "f", "s", "a", "t", "z">>>>,
              <<<<"1", "0", ".", "9", ".", "2", "0", "2", "5", " ", "b", "i", "s", " ", "1", "2", ".", "9", ".", "2", "0", "2", "5">>, <<"M", "a">>, <<"S", ".", " ", "9">>>>>>,
     before |-> <<>>, ancestors |-> <<>>]

\* the pages the coordinator's refreshes are answered with
RecomputeDocs ==
    {[pupilinfo |-> <<>>, texts |-> <<>>, tables |-> ts] :
        ts \in {<<>>, <<GradeMathematik, HwSingleDate>>,
                <<GradeMathematik, HwDateRange>>, <<GradeMathematik, HwTwoRows>>,
                <<GradeMathematik, HwSingleDate, HwDateRange>>}}

\* the code points of the characters, in their order
CodePointOrder == <<
    "TAB", "NL", " ", "(", ")", "-", ".", "/",
    "0", "1", "2", "3", "4", "5", "6", "7", "8", "9", ":",
    "A", "B", "C", "D", "E", "F", "G", "H", "I", "J", "K", "L", "M",
    "N", "O", "P", "Q", "R", "S", "T", "U", "V", "W", "X", "Y", "Z", "_",
    "a", "b", "c", "d", "e", "f", "g", "h", "i", "j", "k", "l", "m",
    "n", "o", "p", "q", "r", "s", "t", "u", "v", "w", "x", "y", "z",
    "A_uml", "O_uml", "U_uml", "sz", "a_uml", "o_uml", "u_uml" >>
Ord(c) == CHOOSE i \in 1..Len(CodePointOrder) : CodePointOrder[i] = c

\* a <= b on strings
RECURSIVE StrLE(_, _)
StrLE(a, b) ==
    IF a = <<>> THEN TRUE
    ELSE IF b = <<>> THEN FALSE
    ELSE IF Head(a) = Head(b) THEN StrLE(Tail(a), Tail(b))
    ELSE Ord(Head(a)) < Ord(Head(b))

\* (start, summary) of a <= (start, summary) of b
EventLE(a, b) ==
    IF a.start = b.start THEN StrLE(a.summary, b.summary)
    ELSE DateLE(a.start, b.start)

\* lines 114-119: the first of the events from today on, sorted by start and
\* summary; <<>> for None
EarliestUpcoming(events, today) ==
    LET from_today(ev) == DateLE(today, ev.start)
        upcoming == SelectSeq(events, from_today)
        firsts == {i \in 1..Len(upcoming) :
                      \A j \in 1..Len(upcoming) : EventLE(upcoming[i], upcoming[j])}
    IN IF upcoming = <<>> THEN <<>>
       ELSE <<upcoming[CHOOSE i \in firsts : \A j \in firsts : i <= j]>>

Remove(q, i) == SubSeq(q, 1, i - 1) \o SubSeq(q, i + 1, Len(q))

\* a refresh stores a snapshot; the calendar's _handle_coordinator_update
\* creates a recompute task
HandleCoordinatorUpdate(doc) ==
    /\ Len(tasks) < MaxTasks
    /\ data' = Parse(EmptyAcc, doc).snapshot
    /\ tasks' = Append(tasks, [pc |-> "created", snap |-> <<>>, idx |-> 0,
                               events |-> <<>>])
    /\ UNCHANGED <<calEvent, coordRest, unloadVars, platformVars, flowVars, sessionVars,
                   parserVars, fnVars>>

\* task i runs: from its start, where it reads coordinator.data, or from the
\* answer of the lessons calendar, up to the next await for the lessons
\* calendar or to its end, where it sets the event
TaskSnapshot(t) == IF t.pc = "created" THEN data[1] ELSE t.snap[1]
TaskStep(t, snap, lessons) ==
    IF t.pc = "created"
    THEN BuildFrom(snap.homework, 1, <<>>, CalOptions, snap.grades)
    ELSE ResumeFrom(snap.homework, t.idx, t.events, CalOptions,
                    snap.grades, lessons)
TaskEnds(i, snap, st) ==
    IF st.pc = "done"
    THEN /\ calEvent' = EarliestUpcoming(st.events, Today)
         /\ tasks' = Remove(tasks, i)
    ELSE IF st.pc = "lookup"
    THEN /\ tasks' = [tasks EXCEPT ![i] =
                         [pc |-> "lookup", snap |-> <<snap>>,
                          idx |-> st.idx, events |-> st.events]]
         /\ UNCHANGED calEvent
    ELSE /\ tasks' = Remove(tasks, i)
         /\ UNCHANGED calEvent
RecomputeEvent(i, lessons) ==
    /\ tasks[i].pc = "created" => lessons = <<>>
    /\ TaskEnds(i, TaskSnapshot(tasks[i]),
                TaskStep(tasks[i], TaskSnapshot(tasks[i]), lessons))
    /\ UNCHANGED <<coordVars, unloadVars, platformVars, flowVars, sessionVars,
                   parserVars, fnVars>>

RecomputeNext ==
    \/ \E doc \in RecomputeDocs : HandleCoordinatorUpdate(doc)
    \/ \E i \in 1..Len(tasks), lessons \in LessonAnswers :
           RecomputeEvent(i, lessons)

RecomputeSpec == Init /\ [][RecomputeNext]_vars

--------------------------------------------------------------------------
(* Properties of the calendar's current event *)

\* the event lists a build of snapshot snap can end with, whatever the
\* lessons calendar answers
RECURSIVE BuildsFrom(_, _)
BuildsFrom(st, snap) ==
    IF st.pc = "done" THEN {st.events}
    ELSE IF st.pc # "lookup" THEN {}
    ELSE UNION {BuildsFrom(ResumeFrom(snap.homework, st.idx, st.events,
                                      CalOptions, snap.grades, l), snap) :
                   l \in LessonAnswers}
BuildsOf(snap) ==
    BuildsFrom(BuildFrom(snap.homework, 1, <<>>, CalOptions, snap.grades), snap)

\* C28: when every recompute task has finished, the current event of the
\* homework calendar is the earliest event from today on among the events
\* built from the latest snapshot.
C28_EventOfLatestSnapshot ==
    (tasks = <<>> /\ data # <<>>) =>
        calEvent \in {EarliestUpcoming(evs, Today) : evs \in BuildsOf(data[1])}

--------------------------------------------------------------------------
(* config_flow.py: HomeInfoPointConfigFlow. The host starts a flow with
   async_step_user(None), hands each submitted form to the step that showed
   it, and ends the flow on create_entry and on abort. *)

MaxFlows == 3

\* what the user types into the form of the user step
BaseUrlInputs == {<<"h", "/">>, <<" ", "h">>}
UsernameInputs == {<<"u">>, <<"v">>}
\* the page async_login_and_fetch_html returns
FlowDocs ==
    {[pupilinfo |-> <<>>, texts |-> <<>>, tables |-> ts] :
        ts \in {<<>>, <<Homework>>, <<GradeBiologie>>, <<GradeHeaderOnly>>,
                <<GradeMathematik, GradeBiologie>>}}
\* what the user leaves in the match fields and the calendar field of the
\* subjects form
MatchInputs == {<<" ">>, <<"M", "a", "|", "m", "a">>}
CalendarInputs == {<<>>, <<" ", "c", "a", "l", "e", "n", "d", "a", "r", ".", "p", "l", "a", "n", " ">>}

\* _normalize_base_url
NormalizeBaseUrl(url) ==
    IF Strip(url) # <<>> /\ Strip(url)[Len(Strip(url))] = "/"
    THEN Strip(url)
    ELSE Append(Strip(url), "/")

\* f"{base_url}::{username}"
UniqueId(base, user) == base \o <<":", ":">> \o user

\* every failure is called unknown
LoginErrors_AllUnknown(how) == "unknown"

\* lines 75-80: errors["base"]
LoginErrors(how) ==
    IF how = "InvalidAuth" THEN "invalid_auth"
    ELSE IF how = "CannotConnect" THEN "cannot_connect"
    ELSE "unknown"

\* sorted(keys)
RECURSIVE SortedKeys(_)
SortedKeys(ks) ==
    IF ks = {} THEN <<>>
    ELSE <<CHOOSE k \in ks : \A o \in ks : StrLE(k, o)>>
         \o SortedKeys(ks \ {CHOOSE k \in ks : \A o \in ks : StrLE(k, o)})

\* lines 84-89: the sorted grade keys of the parsed page, [] when parse raises
DetectedFrom(parsed) ==
    IF parsed.raised # "none" THEN <<>>
    ELSE SortedKeys(DOMAIN parsed.snapshot[1].grades)
DetectedSubjects(doc) == DetectedFrom(Parse(EmptyAcc, doc))

\* a config entry as async_create_entry makes it; the host stores the unique
\* id the flow has set
NewEntry(staged, options) ==
    [unique_id |-> UniqueId(staged.base_url, staged.username),
     title |-> staged.username, data |-> staged, options |-> options]

flowRest == <<sessionVars, coordVars, parserVars, fnVars, unloadVars,
              platformVars, calVars>>

\* the record of a call of a step
CallOf(step, base, user, how, page) ==
    [step |-> step, base_url |-> base, username |-> user,
     outcome |-> how, page |-> page,
     before |-> {e.data : e \in configEntries}]

\* the host starts a flow: async_step_user(None) shows the empty form
FlowStart ==
    /\ flow.cur_step \in {"none", "done"}
    /\ flowsStarted < MaxFlows
    /\ flowsStarted' = flowsStarted + 1
    /\ flow' = [cur_step |-> "user", result |-> "form", errors |-> "",
                detected |-> <<>>, staged |-> <<>>, success |-> FALSE,
                call |-> CallOf("user", <<>>, <<>>, "none", <<>>),
                made |-> <<>>]
    /\ UNCHANGED <<configEntries, errorsShown, flowRest>>

\* lines 66-68: the unique id is configured already, AbortFlow
UserAborts(c) ==
    /\ flow' = [flow EXCEPT !.cur_step = "done", !.result = "abort",
                            !.errors = "", !.call = c]
    /\ UNCHANGED <<configEntries, errorsShown>>

\* lines 75-80 and 107-114: the login or the fetch raised
UserFails(c, error) ==
    /\ flow' = [flow EXCEPT !.result = "form", !.errors = error, !.call = c]
    /\ errorsShown' = errorsShown \cup {error}
    /\ UNCHANGED configEntries

\* lines 97-98 and 136-156: the subjects form is shown
UserGoesOn(c, detected, staged) ==
    /\ flow' = [flow EXCEPT !.cur_step = "subjects", !.result = "form",
                            !.errors = "", !.detected = detected,
                            !.staged = <<staged>>, !.success = TRUE,
                            !.call = c]
    /\ UNCHANGED <<configEntries, errorsShown>>

\* lines 101-105 and 126-134: async_create_entry
Creates(c, detected, staged, options) ==
    /\ flow' = [flow EXCEPT !.cur_step = "done", !.result = "create_entry",
                            !.errors = "", !.detected = detected,
                            !.staged = <<staged>>, !.success = TRUE,
                            !.call = c, !.made = <<NewEntry(staged, options)>>]
    /\ configEntries' = configEntries \cup {NewEntry(staged, options)}
    /\ UNCHANGED errorsShown

\* lines 82-105: after a login and fetch that returned
UserSucceeds(c, detected, staged) ==
    IF detected # <<>> THEN UserGoesOn(c, detected, staged)
    ELSE Creates(c, detected, staged, <<>>)

\* async_step_user(user_input)
StepUser(base, user, how, doc) ==
    /\ flow.cur_step = "user"
    /\ IF UniqueId(NormalizeBaseUrl(base), user)
              \in {e.unique_id : e \in configEntries}
       THEN /\ how = "return"
            /\ doc = EmptyDoc
            /\ UserAborts(CallOf("user", base, user, "none", <<>>))
       ELSE IF how # "return"
       THEN /\ doc = EmptyDoc
            /\ UserFails(CallOf("user", base, user, how, <<>>),
                         LoginErrors(how))
       ELSE UserSucceeds(CallOf("user", base, user, how, <<doc>>),
                         DetectedSubjects(doc),
                         [base_url |-> NormalizeBaseUrl(base),
                          username |-> user])
    /\ UNCHANGED <<flowsStarted, flowRest>>

\* lines 122-124: the options made of the submitted subjects form, where
\* every map field holds name and every match field holds pattern
SubjectOptions(detected, name, pattern, cal) ==
    [subject_map |-> [i \in 1..Len(detected) |-> <<detected[i], name>>],
     subject_match_map |->
         IF Strip(pattern) = <<>> THEN <<>>
         ELSE [i \in 1..Len(detected) |-> <<detected[i], pattern>>],
     webuntis_lessons_calendar |-> Strip(cal)]

\* async_step_subjects(user_input)
StepSubjects(pattern, cal) ==
    /\ flow.cur_step = "subjects"
    /\ flow.staged # <<>>
    /\ Creates(CallOf("subjects", <<>>, <<>>, "none", <<>>), flow.detected,
               flow.staged[1],
               SubjectOptions(flow.detected, <<"F", "a", "c", "h">>, pattern, cal))
    /\ UNCHANGED <<flowsStarted, flowRest>>

FlowNext ==
    \/ FlowStart
    \/ \E b \in BaseUrlInputs, u \in UsernameInputs, how \in LoginOutcomes,
          doc \in FlowDocs \cup {EmptyDoc} : StepUser(b, u, how, doc)
    \/ \E pattern \in MatchInputs, cal \in CalendarInputs :
          StepSubjects(pattern, cal)

FlowSpec == Init /\ [][FlowNext]_vars

--------------------------------------------------------------------------
(* Properties of the config flow *)

\* the page of the last call holds a table with a date and a mark column
PageShowsGrades ==
    \E i \in 1..Len(flow.call.page[1].tables) :
        /\ flow.call.page[1].tables[i].trs # <<>>
        /\ \E j \in 1..Len(flow.call.page[1].tables[i].trs[1]) :
              Lower(flow.call.page[1].tables[i].trs[1][j]) = <<"z", "e", "n", "s", "u", "r">>
        /\ \E j \in 1..Len(flow.call.page[1].tables[i].trs[1]) :
              Lower(flow.call.page[1].tables[i].trs[1][j]) = <<"d", "a", "t", "u", "m">>

\* C29: an entry is created only in a flow whose user step logged in and
\* fetched; a user step whose login raised shows the user form again with
\* invalid_auth, cannot_connect or unknown and creates nothing; a user step
\* whose login returned shows the subjects form if the page holds grades and
\* else creates the entry with empty options; a user step given the base
\* URL and username of an existing entry aborts without a login.
C29_EntryOnlyAfterLogin ==
    /\ flow.result = "create_entry" => flow.success
    /\ (flow.call.step = "user" /\ flow.call.outcome \in LoginOutcomes \ {"return"}) =>
          /\ flow.result = "form"
          /\ flow.cur_step = "user"
          /\ flow.errors = (CASE flow.call.outcome = "InvalidAuth" -> "invalid_auth"
                              [] flow.call.outcome = "CannotConnect" -> "cannot_connect"
                              [] OTHER -> "unknown")
          /\ flow.made = <<>>
          /\ {e.data : e \in configEntries} = flow.call.before
    /\ (flow.call.step = "user" /\ flow.call.outcome = "return") =>
          IF PageShowsGrades
          THEN /\ flow.result = "form"
               /\ flow.cur_step = "subjects"
               /\ flow.made = <<>>
               /\ {e.data : e \in configEntries} = flow.call.before
          ELSE /\ flow.result = "create_entry"
               /\ flow.made # <<>>
               /\ flow.made[1].options = <<>>
               /\ flow.made[1] \in configEntries
    /\ (flow.call.step = "user" /\ flow.call.base_url # <<>>
          /\ [base_url |-> flow.call.base_url, username |-> flow.call.username]
                 \in flow.call.before) =>
          /\ flow.result = "abort"
          /\ flow.call.outcome = "none"
    /\ flow.result = "abort" =>
          /\ flow.call.outcome = "none"
          /\ {e.data : e \in configEntries} = flow.call.before

\* a third flow was aborted for a pair that is configured, after one entry
\* was created at once and one by the subjects step, and every error was shown
C29_Witness ==
    /\ flow.result = "abort"
    /\ errorsShown = {"invalid_auth", "cannot_connect", "unknown"}
    /\ \E e \in configEntries : e.options = <<>>
    /\ \E e \in configEntries : e.options # <<>>

--------------------------------------------------------------------------
(* calendar.py: the events of one homework record and of one remark record *)

\* date texts of the portal, each with the dates of the calendar it names,
\* in the order they stand in the text
DateTexts == <<
    [text |-> <<>>,
     valid |-> <<>>],
    [text |-> <<"1", ".", "9", ".", "2", "0", "2", "5">>,
     valid |-> <<<<2025, 9, 1>>>>],
    [text |-> <<"0", "1", ".", "0", "9", ".", "2", "0", "2", "5", " ", "-", " ", "1", "5", ".", "0", "9", ".", "2", "0", "2", "5">>,
     valid |-> <<<<2025, 9, 1>>, <<2025, 9, 15>>>>],
    [text |-> <<"5", ".", "9", ".", "2", "0", "2", "5", ",", " ", "2", ".", "9", ".", "2", "0", "2", "5">>,
     valid |-> <<<<2025, 9, 5>>, <<2025, 9, 2>>>>],
    [text |-> <<"3", "1", ".", "2", ".", "2", "0", "2", "5">>,
     valid |-> <<>>],
    [text |-> <<"2", "9", ".", "2", ".", "2", "0", "2", "4", " ", "-", " ", "1", ".", "3", ".", "2", "0", "2", "4">>,
     valid |-> <<<<2024, 2, 29>>, <<2024, 3, 1>>>>],
    [text |-> <<"2", "9", ".", "2", ".", "2", "0", "2", "5", " ", "3", ".", "9", ".", "2", "0", "2", "5">>,
     valid |-> <<<<2025, 9, 3>>>>],
    [text |-> <<"1", "2", ".", "5", ".", "2", "0", "2", "5", "1">>,
     valid |-> <<>>],
    [text |-> <<"b", "i", "s", " ", "8", ".", "9", ".", "2", "0", "2", "5">>,
     valid |-> <<<<2025, 9, 8>>>>],
    [text |-> <<"2", ".", "9", ".", "2", "0", "2", "5", " ", "2", ".", "9", ".", "2", "0", "2", "5">>,
     valid |-> <<<<2025, 9, 2>>, <<2025, 9, 2>>>>],
    [text |-> <<"3", "0", ".", "1", "2", ".", "2", "0", "2", "5", " ", "3", "1", ".", "1", "2", ".", "2", "0", "2", "5">>,
     valid |-> <<<<2025, 12, 30>>, <<2025, 12, 31>>>>],
    [text |-> <<"3", "0", ".", "1", "2", ".", "9", "9", "9", "9", " ", "3", "1", ".", "1", "2", ".", "9", "9", "9", "9">>,
     valid |-> <<<<9999, 12, 30>>, <<9999, 12, 31>>>>],
    [text |-> <<"1", ".", "1", "3", ".", "2", "0", "2", "5">>,
     valid |-> <<>>],
    [text |-> <<"1", ".", "1", ".", "0", "0", "0", "0">>,
     valid |-> <<>>],
    [text |-> <<"3", "1", ".", "1", "2", ".", "9", "9", "9", "9">>,
     valid |-> <<<<9999, 12, 31>>>>] >>

FachInputs == {<<>>, <<"M", "a">>, <<"D", "e">>}
\* the grades of the snapshot: the keys matter
DueGrades == [k \in {<<"m", "a">>, <<"d", "e">>} |-> <<>>]
\* the options with and without a lessons calendar
DueOptions == {CalOptions, [subject_map |-> <<>>, lessons_cal |-> <<" ">>]}

HomeworkItem(n, fach) ==
    (S_Datum :> DateTexts[n].text) @@ (S_Fach :> fach)
        @@ (S_Hausaufgaben :> <<"S", ".", " ", "7">>)
RemarkItem(n, stunde) ==
    (S_Datum :> DateTexts[n].text) @@ (S_Typ :> <<"T", "a", "d", "e", "l">>) @@ (S_Stunde :> stunde)
        @@ (S_Bemerkung :> <<>>)

DueArgs ==
    {[for |-> "homework",
      value |-> [n |-> n, fach |-> f, opts |-> o, lessons |-> l, stunde |-> <<>>]] :
        n \in 1..Len(DateTexts), f \in FachInputs, o \in DueOptions,
        l \in LessonAnswers}
    \cup
    {[for |-> "remarks",
      value |-> [n |-> n, fach |-> <<>>, opts |-> CalOptions, lessons |-> <<>>,
                 stunde |-> st]] :
        n \in 1..Len(DateTexts), st \in {<<>>, <<"3">>}}

\* HIPHomeworkCalendar._async_build_all_events on a snapshot with one record
CallHomeworkBuild ==
    /\ fnName = "none"
    /\ fnArg.for = "homework"
    /\ fnName' = "homework"
    /\ fnRet' = HomeworkBuildAllEvents(
                    [homework |-> <<HomeworkItem(fnArg.value.n, fnArg.value.fach)>>,
                     grades |-> DueGrades],
                    fnArg.value.opts, fnArg.value.lessons)
    /\ UNCHANGED <<fnArg, sessionVars, coordVars, parserVars, hostVars>>

\* HIPRemarksCalendar._async_build_all_events on a snapshot with one record
CallRemarksBuild ==
    /\ fnName = "none"
    /\ fnArg.for = "remarks"
    /\ fnName' = "remarks"
    /\ fnRet' = RemarksBuildAllEvents(
                    <<RemarkItem(fnArg.value.n, fnArg.value.stunde)>>)
    /\ UNCHANGED <<fnArg, sessionVars, coordVars, parserVars, hostVars>>

DueInit ==
    /\ SessionInit
    /\ CoordInit
    /\ pdoc = <<>>
    /\ ParserIdle
    /\ fnArg \in DueArgs
    /\ FnIdle
    /\ HostInit

DueNext == CallHomeworkBuild \/ CallRemarksBuild

DueSpec == DueInit /\ [][DueNext]_vars

--------------------------------------------------------------------------
(* Properties of the events of a record *)

\* the dates the text of the call names
NamedDates == DateTexts[fnArg.value.n].valid

\* a is not after b
NotAfter(a, b) ==
    \/ a[1] < b[1]
    \/ a[1] = b[1] /\ a[2] < b[2]
    \/ a[1] = b[1] /\ a[2] = b[2] /\ a[3] <= b[3]

LatestOf(ds) == CHOOSE d \in Range(ds) : \A o \in Range(ds) : NotAfter(o, d)

\* the number of the day in the Gregorian calendar
DayNumber(d) ==
    LET a == (14 - d[2]) \div 12
        y == d[1] + 4800 - a
        m == d[2] + 12 * a - 3
    IN d[3] + (153 * m + 2) \div 5 + 365 * y + y \div 4 - y \div 100
       + y \div 400 - 32045

OneDayLong(ev) == DayNumber(ev.end) = DayNumber(ev.start) + 1

\* C30: a homework record whose text names two or more dates yields one
\* event on the latest of them; one whose text names one date yields an
\* event only on the day of a lesson the lessons calendar has on or after
\* that date; one whose text names no date yields none; every event of a
\* homework or a remark record ends on the day after its start.
C30_EventIffDueDate ==
    /\ fnName = "homework" =>
          /\ Len(NamedDates) >= 2 =>
                /\ Len(fnRet.events) = 1
                /\ fnRet.events[1].start = LatestOf(NamedDates)
          /\ Len(NamedDates) = 1 =>
                (fnRet.events # <<>> =>
                    /\ Len(fnRet.events) = 1
                    /\ fnArg.value.lessons # <<>>
                    /\ \E i \in 1..Len(fnArg.value.lessons[1]) :
                          /\ fnArg.value.lessons[1][i].start = fnRet.events[1].start
                          /\ NotAfter(NamedDates[1], fnRet.events[1].start))
          /\ Len(NamedDates) = 0 => fnRet.events = <<>>
          /\ \A i \in 1..Len(fnRet.events) : OneDayLong(fnRet.events[i])
    /\ fnName = "remarks" =>
          /\ \A i \in 1..Len(fnRet.events) :
                /\ OneDayLong(fnRet.events[i])
                /\ fnRet.events[i].start \in Range(NamedDates)
          /\ NamedDates = <<>> => fnRet.events = <<>>

==========================================================================
